---- MODULE Spec2Model ----
(***************************************************************************)
(* Connection / portal state machine of AsyncWiFiManager                   *)
(* (src/src/ESPAsyncWiFiManager.cpp, src/src/ESPAsyncWiFiManager.h).       *)
(*                                                                         *)
(* The main task runs either the blocking portal (startConfigPortal) or    *)
(* the modeless portal (startConfigPortalModeless + criticalLoop ticks).   *)
(* The request handlers run in the web server's task and interleave with   *)
(* the main task between statements.  The radio driver, the DNS responder  *)
(* and the web server are the environment: the radio resolves a begin()    *)
(* to connected or failed at a time of its own choosing.                   *)
(*                                                                         *)
(* Time is millis() in milliseconds.  It advances by the delay() calls of  *)
(* the code and by Elapse steps of the environment.  All differences       *)
(* millis() - x of the portal loop are taken with x <= millis(), far below *)
(* the wrap of the counter.                                                *)
(* Rendering state (pager, wifiStatus, needInfo, page strings) is not part *)
(* of the model.  The WPS branch of connectWifi is compiled only under     *)
(* NO_EXTRA_4K_HEAP and is not part of the model.                          *)
(***************************************************************************)
EXTENDS Integers, Sequences, FiniteSets, TLC

(* ---------------------------- bounds ----------------------------------- *)
\* number of Elapse steps of the environment clock in one run
MaxElapse == 2
\* number of credential submissions (requests to /api/v2/wifi/save) in one run
MaxSubmissions == 2
\* number of observations the driver reports for one scan
MaxScanLen == 3
\* the signal strengths given to getRSSIasQuality run from -MaxRssiDepth up
MaxRssiDepth == 160
\* number of addParameter calls in one run
MaxAddParameter == 11
\* length of the Host headers built from HostChars
MaxHostLen == 3
\* the largest maxConnectRetries handed to autoConnect
MaxConnectRetries == 3
\* bits of the unsigned long that millis() returns, scaled down from 32
ClockBits == 12
\* number of calls of startConfigPortal in one run
MaxPortalRuns == 2
\* number of refreshes of the scan batch that run statement by statement
MaxRefresh == 2

(* ------------------------ program constants ---------------------------- *)
InitialBorder == 40000
ScanBorder == 2000
SaveBorder == 20000
PortalScanInterval == 1000000
ModelessScanInterval == 60000
ConnectDelay == 2000
PollDelay == 100
SetupDelay == 500
ResetDelay == 500
StandAloneDelay == 200
SaveStaDelay == 2000
RestartDelay == 2000
DelaySlice == 100
MsPerSecond == 1000
WIFI_SCAN_RUNNING == -1
WIFI_SCAN_FAILED == -2
WIFI_MANAGER_MAX_PARAMS == 10
MinPasswordLength == 8
MaxPasswordLength == 63
\* const char *_apPassword = NULL: the value that stands for no password
NullPassword == -1

(* ----------------------------- inputs ---------------------------------- *)
\* arguments of setConfigPortalTimeout / setConnectTimeout, in seconds
PortalTimeoutSeconds == {0, 30}
ConnectTimeoutSeconds == {0, 1}
\* values an uninitialised wifiSSIDCount can hold
UninitCounts == {-1, 0, 2}
\* amounts of time the environment lets pass in one Elapse step
ElapseSteps == {30000}
\* the station SSID stored in the key-value store (NVS_NETWORK)
NvsNetwork == "home"
\* form submissions: the "s" and "p" arguments of the save request
Submissions == {[s |-> "cafe", p |-> "pwC"], [s |-> "", p |-> ""]}
\* raw results of a radio scan, in the order the driver reports them
ScanInputs == {<<[SSID |-> "cafe", RSSI |-> -80]>>, <<[SSID |-> "cafe", RSSI |-> -80], [SSID |-> "home", RSSI |-> -60], [SSID |-> "cafe", RSSI |-> -70]>>}

\* observations a directly refreshed cache is given
Observations == {[SSID |-> "cafe", RSSI |-> -60], [SSID |-> "home", RSSI |-> -96], [SSID |-> "cafe", RSSI |-> -97]}
\* what the driver holds after a scan that found 0..MaxScanLen networks
ScanResults == UNION {[1..k -> Observations] : k \in 0..MaxScanLen}
\* negative counts: scan failed, scan running, another negative code
FailureCodes == {WIFI_SCAN_FAILED, WIFI_SCAN_RUNNING, -3}
\* constructor arguments of the parameters a sketch registers: the default
\* value and the declared length (every default is shorter than its length)
ParameterArgs == {[defaultValue |-> <<>>, length |-> 2],
                  [defaultValue |-> <<"x">>, length |-> 5]}
\* values a save request carries for a parameter
ParamValues == {<<"a", "b", "c", "d", "e", "f">>, <<"a">>}
\* the field of a save request for a parameter id: present with a value, or
\* not part of the request
ParamFields == {[present |-> TRUE, value |-> v] : v \in ParamValues}
               \cup {[present |-> FALSE, value |-> <<>>]}
\* the characters of the Host headers, in the order of their codes
Alphabet == <<".", "/", "0", "1", "2", "3", "4", "5", "6", "7", "8", "9", ":",
              "a", "c", "e", "l", "m", "o", "p", "x">>
\* the characters the short Host headers are built from: the dot, the digits
\* at both ends of their range, the neighbours of that range, and a letter
HostChars == {".", "/", "0", "9", ":", "x"}
\* the Host headers of requests: an address, a name, an address with a
\* letter after it, and every header of up to MaxHostLen of the HostChars
Hosts ==
  {<<"4", ".", "3", ".", "2", ".", "1">>,
   <<"e", "x", "a", "m", "p", "l", "e", ".", "c", "o", "m">>,
   <<"4", ".", "3", ".", "2", ".", "1", "x">>}
  \cup UNION {[1..k -> HostChars] : k \in 0..MaxHostLen}
\* arguments of setMinimumSignalQuality (8 is its default argument)
MinimumQualities == {0, 8}
\* arguments of getRSSIasQuality
RssiInputs == (0 - MaxRssiDepth)..10

VARIABLES
  now,                            \* millis()
  elapses,                        \* number of Elapse steps taken
  pc,                             \* position of the main task; "fault" once an
                                  \* access outside _params has stopped the
                                  \* program, "restarted" once ESP.restart() has
  sketch,                         \* the portal variant the owning sketch uses
  submissions,                    \* number of save requests served
  _modeless, connect, scannow, time_now, foundOnScan, ap_on, border,
  _ssid, _pass,
  _configPortalTimeout, _connectTimeout, _configPortalStart,
  _shouldBreakAfterConfig, _tryConnectDuringConfigPortal,
  _savecallback,                  \* TRUE iff the callback is not NULL
  shouldscan, try_scan, wifiSSIDs, wifiSSIDCount,
  connectedDuringConfigPortal,    \* local of startConfigPortal
  argSsid, argPass,               \* parameters of connectWifi
  connRes,                        \* value returned by connectWifi
  caller,                         \* who called connectWifi
  radioCalls,                     \* the calls the connectWifi in progress has
                                  \* made to the station, in their order
  wlStatus,                       \* WiFi.status()
  staPending,                     \* begin() in flight: "none", "reconnect" (the
                                  \* begin() of the scan section), "stored"
                                  \* (begin() of connectWifi), "explicit"
                                  \* (begin(ssid, pass) of connectWifi)
  connCause,                      \* the begin() that led to wlStatus
  wifiMode,                       \* WiFi.mode()
  storedSSID,                     \* WiFi.SSID(), the SSID the driver remembers
  scanState, radioScan,           \* asynchronous scan of the driver
  routes,                         \* the HTTP routes are registered
  dnsRunning,                     \* the DNS responder is started
  saveCalls, apCalls,             \* invocations of the callbacks
  attempts,                       \* calls of connectWifi
  exitReason,                     \* the terminal state the session reached:
                                  \* "none", "Connected", "TimedOut",
                                  \* "BreakAfterConfig"
  result,                         \* the value startConfigPortal returned
  scanCall,                       \* the latest direct call of copySSIDInfo(n)
  page,                           \* network part of the page handleWifi sent last
  _minimumQuality,
  qualityCall,                    \* the latest call of getRSSIasQuality
  _apPassword,                    \* length of the AP password, or NullPassword
  softAP,                         \* the latest call WiFi.softAP: the password
                                  \* setupConfigPortal found and the one it passed
  _params, _paramsCount,          \* the parameter registry: the parameters in the
                                  \* order of their slots, each with its _length
                                  \* and the string its _value holds; the slots
                                  \* after WIFI_MANAGER_MAX_PARAMS lie outside
                                  \* the array
  overrun,                        \* a slot outside _params has been written
  staRoutes,                      \* the routes of setupApiCalls are registered
  restartedBy,                    \* the handler that restarted the device, or
                                  \* "none"
  autoConnectCall,                \* the call of autoConnect: its parameters, its
                                  \* locals tryNumber and restDelayMs, and how it
                                  \* returned: "none", "true" (connected, no
                                  \* portal) or "portal" (startConfigPortal)
  waitCall,                       \* the locals of waitForConnectResult: start,
                                  \* status ("unset" before the first poll),
                                  \* keepConnecting, and the time the loop has
                                  \* delayed so far (up to WaitedCap)
  scanRequest,                    \* the latest WiFi.scanNetworks: who called it,
                                  \* whether a station disconnect was the radio
                                  \* call before it, and the number of these
                                  \* calls so far
  refresh,                        \* a copySSIDInfo(n) under way, statement by
                                  \* statement: where it is, the observations of
                                  \* the driver, its loop index, the batch it
                                  \* began with, and the number of such calls
  rendered,                       \* what the latest networkListAsString read
                                  \* while the other task refreshed the batch
  portalRuns,                     \* calls of startConfigPortal so far
  response,                       \* the response handleRoot or handleNotFound
                                  \* sent last: the Host of its request, its
                                  \* status code, and whether captivePortal sent it
  save,                           \* the call of handleWifiSave that the server
                                  \* task is in: the statement it executes next,
                                  \* the number of the submission and its fields
  origin                          \* the submissions that wrote _ssid and _pass,
                                  \* the number of handlers that have set
                                  \* connect, and the latest submission whose
                                  \* credentials connectWifi was called with

cfgVars == <<_configPortalTimeout, _connectTimeout, _shouldBreakAfterConfig, _tryConnectDuringConfigPortal, _savecallback>>
clockVars == <<now, elapses>>
credVars == <<_ssid, _pass>>
apVars == <<time_now, ap_on, border>>
batchVars == <<shouldscan, wifiSSIDs, wifiSSIDCount, foundOnScan>>
callVars == <<argSsid, argPass, caller, radioCalls>>
staVars == <<wlStatus, staPending, connCause, storedSSID>>
asyncScanVars == <<scanState, radioScan>>
serverVars == <<routes, dnsRunning>>
outcomeVars == <<exitReason, result>>
paramVars == <<_params, _paramsCount, overrun>>
apPassVars == <<_apPassword, softAP>>
vars == <<now, elapses, pc, sketch, submissions, _modeless, connect, scannow, time_now, foundOnScan, ap_on, border, _ssid, _pass, _configPortalTimeout, _connectTimeout, _configPortalStart, _shouldBreakAfterConfig, _tryConnectDuringConfigPortal, _savecallback, shouldscan, try_scan, wifiSSIDs, wifiSSIDCount, connectedDuringConfigPortal, argSsid, argPass, connRes, caller, radioCalls, wlStatus, staPending, connCause, wifiMode, storedSSID, scanState, radioScan, routes, dnsRunning, saveCalls, apCalls, attempts, exitReason, result, scanCall, page, _minimumQuality, qualityCall, _apPassword, softAP, _params, _paramsCount, overrun, staRoutes, restartedBy, autoConnectCall, waitCall, scanRequest, refresh, rendered, portalRuns, response, save, origin>>

(* ------------------------- construction -------------------------------- *)
\* The state after the constructor and the member initialisers of the header.
\* The constructor leaves connect, scannow and time_now without a value:
\* connect is read by the status page and takes either value; scannow and
\* time_now are assigned by both portal starts before their first read.
\* The station is connected or idle from what ran before the portal.
\* wifiSSIDCount has no initialiser either, and networkListAsString reads it:
\* it holds whatever the storage of the object held.
Constructed ==
  /\ now = 0 /\ elapses = 0
  /\ pc = "idle" /\ submissions = 0
  /\ sketch \in {"blocking", "modeless"}
  /\ _modeless = FALSE
  /\ connect \in BOOLEAN
  /\ scannow = 0 /\ time_now = 0
  /\ foundOnScan = FALSE /\ ap_on = FALSE /\ border = InitialBorder
  /\ _ssid = "" /\ _pass = ""
  /\ _configPortalTimeout = 0
  /\ _connectTimeout = 0
  /\ _configPortalStart = 0
  /\ _shouldBreakAfterConfig = FALSE
  /\ _tryConnectDuringConfigPortal = TRUE
  /\ _savecallback = FALSE
  /\ shouldscan = TRUE /\ try_scan = TRUE
  /\ wifiSSIDs = <<>> /\ wifiSSIDCount \in UninitCounts
  /\ connectedDuringConfigPortal = FALSE
  /\ argSsid = "" /\ argPass = ""
  /\ connRes = "WL_IDLE_STATUS"
  /\ caller = "none"
  /\ radioCalls = <<>>
  /\ wlStatus \in {"WL_IDLE_STATUS", "WL_CONNECTED"}
  /\ staPending = "none"
  /\ connCause = IF wlStatus = "WL_CONNECTED" THEN "prior" ELSE "none"
  /\ wifiMode = "WIFI_AP_STA"
  /\ storedSSID \in (IF wlStatus = "WL_CONNECTED" THEN {NvsNetwork} ELSE {"", NvsNetwork})
  /\ scanState = "idle" /\ radioScan = <<>>
  /\ routes = FALSE /\ dnsRunning = FALSE
  /\ saveCalls = 0 /\ apCalls = 0 /\ attempts = 0
  /\ exitReason = "none" /\ result = FALSE
  /\ scanCall = [called |-> FALSE, n |-> 0]
  /\ page = [sent |-> FALSE, found |-> FALSE, items |-> <<>>]
  /\ _minimumQuality = 0
  /\ qualityCall = [called |-> FALSE, RSSI |-> 0, quality |-> 0]
  /\ _apPassword = NullPassword
  /\ softAP = [called |-> FALSE, apPassword |-> NullPassword, password |-> NullPassword]
  /\ _params = <<>> /\ _paramsCount = 0
  /\ overrun = FALSE
  /\ staRoutes = FALSE /\ restartedBy = "none"
  /\ scanRequest = [issued |-> FALSE, by |-> "none", disconnected |-> FALSE, count |-> 0]
  /\ portalRuns = 0
  /\ refresh = [at |-> "idle", raw |-> <<>>, i |-> 0, old |-> <<>>, runs |-> 0]
  /\ rendered = [sent |-> FALSE, freed |-> FALSE, count |-> 0, batch |-> <<>>,
                 whole |-> {}]
  /\ waitCall = [start |-> 0, status |-> "unset", keepConnecting |-> FALSE, waited |-> 0]
  /\ autoConnectCall = [called |-> FALSE, apPassword |-> NullPassword,
                        maxConnectRetries |-> 0, retryDelayMs |-> 0,
                        tryNumber |-> 0, restDelayMs |-> 0, returned |-> "none"]
  /\ response = [sent |-> FALSE, host |-> <<>>, code |-> 0, captive |-> FALSE]
  /\ save = [at |-> "idle", k |-> 0, req |-> [s |-> "", p |-> ""]]
  /\ origin = [ssid |-> 0, pass |-> 0, done |-> 0, served |-> 0]

\* a manager whose wifiSSIDCount happens to hold 0, as in an object with
\* static storage
Init == Constructed /\ wifiSSIDCount = 0

(* --------------------------- setters ----------------------------------- *)
\* the owning sketch configures the manager before it starts a portal; it
\* calls the setters of the settings that its portal variant reads
setConfigPortalTimeout ==
  /\ pc = "idle"
  /\ sketch = "blocking"
  /\ \E seconds \in PortalTimeoutSeconds : _configPortalTimeout' = seconds * MsPerSecond
  /\ UNCHANGED <<now, elapses, pc, sketch, submissions, _modeless, connect, scannow, time_now, foundOnScan, ap_on, border, _ssid, _pass, _connectTimeout, _configPortalStart, _shouldBreakAfterConfig, _tryConnectDuringConfigPortal, _savecallback, shouldscan, try_scan, wifiSSIDs, wifiSSIDCount, connectedDuringConfigPortal, argSsid, argPass, connRes, caller, radioCalls, wlStatus, staPending, connCause, wifiMode, storedSSID, scanState, radioScan, routes, dnsRunning, saveCalls, apCalls, attempts, exitReason, result, scanCall, page, _minimumQuality, qualityCall, _apPassword, softAP, _params, _paramsCount, overrun, staRoutes, restartedBy, autoConnectCall, waitCall, scanRequest, refresh, rendered, portalRuns, response, save, origin>>

setConnectTimeout ==
  /\ pc = "idle"
  /\ \E seconds \in ConnectTimeoutSeconds : _connectTimeout' = seconds * MsPerSecond
  /\ UNCHANGED <<now, elapses, pc, sketch, submissions, _modeless, connect, scannow, time_now, foundOnScan, ap_on, border, _ssid, _pass, _configPortalTimeout, _configPortalStart, _shouldBreakAfterConfig, _tryConnectDuringConfigPortal, _savecallback, shouldscan, try_scan, wifiSSIDs, wifiSSIDCount, connectedDuringConfigPortal, argSsid, argPass, connRes, caller, radioCalls, wlStatus, staPending, connCause, wifiMode, storedSSID, scanState, radioScan, routes, dnsRunning, saveCalls, apCalls, attempts, exitReason, result, scanCall, page, _minimumQuality, qualityCall, _apPassword, softAP, _params, _paramsCount, overrun, staRoutes, restartedBy, autoConnectCall, waitCall, scanRequest, refresh, rendered, portalRuns, response, save, origin>>

setTryConnectDuringConfigPortal ==
  /\ pc = "idle"
  /\ sketch = "blocking"
  /\ \E v \in BOOLEAN : _tryConnectDuringConfigPortal' = v
  /\ UNCHANGED <<now, elapses, pc, sketch, submissions, _modeless, connect, scannow, time_now, foundOnScan, ap_on, border, _ssid, _pass, _configPortalTimeout, _connectTimeout, _configPortalStart, _shouldBreakAfterConfig, _savecallback, shouldscan, try_scan, wifiSSIDs, wifiSSIDCount, connectedDuringConfigPortal, argSsid, argPass, connRes, caller, radioCalls, wlStatus, staPending, connCause, wifiMode, storedSSID, scanState, radioScan, routes, dnsRunning, saveCalls, apCalls, attempts, exitReason, result, scanCall, page, _minimumQuality, qualityCall, _apPassword, softAP, _params, _paramsCount, overrun, staRoutes, restartedBy, autoConnectCall, waitCall, scanRequest, refresh, rendered, portalRuns, response, save, origin>>

setBreakAfterConfig ==
  /\ pc = "idle"
  /\ \E shouldBreak \in BOOLEAN : _shouldBreakAfterConfig' = shouldBreak
  /\ UNCHANGED <<now, elapses, pc, sketch, submissions, _modeless, connect, scannow, time_now, foundOnScan, ap_on, border, _ssid, _pass, _configPortalTimeout, _connectTimeout, _configPortalStart, _tryConnectDuringConfigPortal, _savecallback, shouldscan, try_scan, wifiSSIDs, wifiSSIDCount, connectedDuringConfigPortal, argSsid, argPass, connRes, caller, radioCalls, wlStatus, staPending, connCause, wifiMode, storedSSID, scanState, radioScan, routes, dnsRunning, saveCalls, apCalls, attempts, exitReason, result, scanCall, page, _minimumQuality, qualityCall, _apPassword, softAP, _params, _paramsCount, overrun, staRoutes, restartedBy, autoConnectCall, waitCall, scanRequest, refresh, rendered, portalRuns, response, save, origin>>

setSaveConfigCallback ==
  /\ pc = "idle"
  /\ _savecallback' = TRUE
  /\ UNCHANGED <<now, elapses, pc, sketch, submissions, _modeless, connect, scannow, time_now, foundOnScan, ap_on, border, _ssid, _pass, _configPortalTimeout, _connectTimeout, _configPortalStart, _shouldBreakAfterConfig, _tryConnectDuringConfigPortal, shouldscan, try_scan, wifiSSIDs, wifiSSIDCount, connectedDuringConfigPortal, argSsid, argPass, connRes, caller, radioCalls, wlStatus, staPending, connCause, wifiMode, storedSSID, scanState, radioScan, routes, dnsRunning, saveCalls, apCalls, attempts, exitReason, result, scanCall, page, _minimumQuality, qualityCall, _apPassword, softAP, _params, _paramsCount, overrun, staRoutes, restartedBy, autoConnectCall, waitCall, scanRequest, refresh, rendered, portalRuns, response, save, origin>>

(* --------------------------- scan cache -------------------------------- *)
\* std::swap(wifiSSIDs[i], wifiSSIDs[j])
SwapAt(s, i, j) == [s EXCEPT ![i] = s[j], ![j] = s[i]]

RECURSIVE SortInnerAscending(_, _, _)
\* SortInner with the comparison turned around
SortInnerAscending(s, i, j) ==
  IF j > Len(s) THEN s
  ELSE SortInnerAscending(IF s[j].RSSI < s[i].RSSI THEN SwapAt(s, i, j) ELSE s, i, j + 1)

RECURSIVE SortInner(_, _, _)
\* inner loop of the RSSI sort: for (j = i + 1; j < n; j++)
SortInner(s, i, j) ==
  IF j > Len(s) THEN s
  ELSE SortInner(IF s[j].RSSI > s[i].RSSI THEN SwapAt(s, i, j) ELSE s, i, j + 1)

RECURSIVE SortOuter(_, _)
\* outer loop of the RSSI sort: for (i = 0; i < n; i++)
SortOuter(s, i) ==
  IF i > Len(s) THEN s ELSE SortOuter(SortInner(s, i, i + 1), i + 1)

RECURSIVE DedupInnerMarksFirst(_, _, _)
\* DedupInner flagging the entry at i instead of the later one at j
DedupInnerMarksFirst(s, i, j) ==
  IF j > Len(s) THEN s
  ELSE DedupInnerMarksFirst(IF s[i].SSID = s[j].SSID THEN [s EXCEPT ![i].duplicate = TRUE] ELSE s, i, j + 1)

RECURSIVE DedupInner(_, _, _)
\* inner loop of the duplicate marking: for (j = i + 1; j < n; j++)
DedupInner(s, i, j) ==
  IF j > Len(s) THEN s
  ELSE DedupInner(IF s[i].SSID = s[j].SSID THEN [s EXCEPT ![j].duplicate = TRUE] ELSE s, i, j + 1)

RECURSIVE DedupOuter(_, _)
\* outer loop of the duplicate marking, skipping entries already marked
DedupOuter(s, i) ==
  IF i > Len(s) THEN s
  ELSE DedupOuter(IF s[i].duplicate THEN s ELSE DedupInner(s, i, i + 1), i + 1)

\* the population loop: getNetworkInfo(i, ...) and duplicate = false
Populate(raw) == [i \in 1..Len(raw) |-> [SSID |-> raw[i].SSID, RSSI |-> raw[i].RSSI, duplicate |-> FALSE]]

\* _removeDuplicateAPs keeps its default
_removeDuplicateAPs == TRUE

\* the batch copySSIDInfo stores for a scan that reported raw
NewBatch(raw) ==
  IF _removeDuplicateAPs THEN DedupOuter(SortOuter(Populate(raw), 1), 1)
  ELSE SortOuter(Populate(raw), 1)

\* foundOnScan after the population loop
FoundAfter(raw) == foundOnScan \/ \E i \in 1..Len(raw) : raw[i].SSID = NvsNetwork

\* copySSIDInfo dropping the batch when the count is negative
copySSIDInfoDropsOnFailure(n, raw) ==
  IF n > 0
  THEN /\ wifiSSIDs' = NewBatch(raw)
       /\ wifiSSIDCount' = n
       /\ shouldscan' = FALSE
       /\ foundOnScan' = FoundAfter(raw)
       /\ IF ~FoundAfter(raw)
          THEN time_now' = now /\ ap_on' = FALSE /\ border' = ScanBorder
          ELSE UNCHANGED apVars
  ELSE IF n < 0
  THEN /\ wifiSSIDs' = <<>>
       /\ wifiSSIDCount' = 0
       /\ UNCHANGED <<shouldscan, foundOnScan, apVars>>
  ELSE UNCHANGED <<batchVars, apVars>>

\* copySSIDInfo(n), where raw are the n observations of the driver (n > 0)
\* or n is a negative code or 0
copySSIDInfo(n, raw) ==
  IF n > 0
  THEN /\ wifiSSIDs' = NewBatch(raw)
       /\ wifiSSIDCount' = n
       /\ shouldscan' = FALSE
       /\ foundOnScan' = FoundAfter(raw)
       /\ IF ~FoundAfter(raw)
          THEN time_now' = now /\ ap_on' = FALSE /\ border' = ScanBorder
          ELSE UNCHANGED apVars
  ELSE UNCHANGED <<batchVars, apVars>>

\* wifiSSIDscan is set to true by the constructor and never changed
wifiSSIDscan == TRUE

\* scan() reaches WiFi.scanNetworks
ScanRuns == shouldscan /\ wifiSSIDscan /\ try_scan

\* copySSIDInfo(n) called with the count and the observations of a finished
\* scan, or with a negative count
copySSIDInfoCall ==
  /\ \/ \E raw \in ScanResults :
          /\ scanCall' = [called |-> TRUE, n |-> Len(raw)]
          /\ radioScan' = raw
          /\ copySSIDInfo(Len(raw), raw)
     \/ \E code \in FailureCodes :
          /\ scanCall' = [called |-> TRUE, n |-> code]
          /\ radioScan' = <<>>
          /\ copySSIDInfo(code, <<>>)
  /\ UNCHANGED <<now, elapses, pc, sketch, submissions, _modeless, connect, scannow, _ssid, _pass, _configPortalTimeout, _connectTimeout, _configPortalStart, _shouldBreakAfterConfig, _tryConnectDuringConfigPortal, _savecallback, try_scan, connectedDuringConfigPortal, argSsid, argPass, connRes, caller, radioCalls, wlStatus, staPending, connCause, wifiMode, storedSSID, scanState, routes, dnsRunning, saveCalls, apCalls, attempts, exitReason, result, page, _minimumQuality, qualityCall, _apPassword, softAP, _params, _paramsCount, overrun, staRoutes, restartedBy, autoConnectCall, waitCall, scanRequest, refresh, rendered, portalRuns, response, save, origin>>

(* ------------------- the refresh, statement by statement --------------- *)
\* what new WiFiResult[n] leaves in an entry: the constructor sets nothing,
\* so SSID is the empty String and RSSI and duplicate are whatever the heap
\* holds
UninitResults == {[SSID |-> "", RSSI |-> r, duplicate |-> d] : r \in {-100, 0}, d \in BOOLEAN}

\* copySSIDInfo(n) is entered with n > 0 observations; if (wifiSSIDs)
\* delete[] wifiSSIDs: the pointer dangles until the next statement
RefreshBegin ==
  /\ routes
  /\ refresh.at = "idle"
  /\ refresh.runs < MaxRefresh
  /\ \E raw \in ScanInputs :
       refresh' = [at |-> IF wifiSSIDs = <<>> /\ wifiSSIDCount = 0 /\ refresh.runs = 0
                          THEN "null" ELSE "freed",
                   raw |-> raw, i |-> 1, old |-> wifiSSIDs, runs |-> refresh.runs + 1]
  /\ UNCHANGED <<now, elapses, pc, sketch, submissions, _modeless, connect, scannow, time_now, foundOnScan, ap_on, border, _ssid, _pass, _configPortalTimeout, _connectTimeout, _configPortalStart, _shouldBreakAfterConfig, _tryConnectDuringConfigPortal, _savecallback, shouldscan, try_scan, wifiSSIDs, wifiSSIDCount, connectedDuringConfigPortal, argSsid, argPass, connRes, caller, radioCalls, wlStatus, staPending, connCause, wifiMode, storedSSID, scanState, radioScan, routes, dnsRunning, saveCalls, apCalls, attempts, exitReason, result, scanCall, page, _minimumQuality, qualityCall, _apPassword, softAP, _params, _paramsCount, overrun, staRoutes, restartedBy, autoConnectCall, waitCall, scanRequest, rendered, portalRuns, response, save, origin>>

\* wifiSSIDs = new WiFiResult[n]
RefreshAllocate ==
  /\ refresh.at \in {"null", "freed"}
  /\ wifiSSIDs' \in [1..Len(refresh.raw) -> UninitResults]
  /\ refresh' = [refresh EXCEPT !.at = "allocated"]
  /\ UNCHANGED <<now, elapses, pc, sketch, submissions, _modeless, connect, scannow, time_now, foundOnScan, ap_on, border, _ssid, _pass, _configPortalTimeout, _connectTimeout, _configPortalStart, _shouldBreakAfterConfig, _tryConnectDuringConfigPortal, _savecallback, shouldscan, try_scan, wifiSSIDCount, connectedDuringConfigPortal, argSsid, argPass, connRes, caller, radioCalls, wlStatus, staPending, connCause, wifiMode, storedSSID, scanState, radioScan, routes, dnsRunning, saveCalls, apCalls, attempts, exitReason, result, scanCall, page, _minimumQuality, qualityCall, _apPassword, softAP, _params, _paramsCount, overrun, staRoutes, restartedBy, autoConnectCall, waitCall, scanRequest, rendered, portalRuns, response, save, origin>>

\* wifiSSIDCount = n; shouldscan = false
RefreshCount ==
  /\ refresh.at = "allocated"
  /\ wifiSSIDCount' = Len(refresh.raw)
  /\ shouldscan' = FALSE
  /\ refresh' = [refresh EXCEPT !.at = "populate", !.i = 1]
  /\ UNCHANGED <<now, elapses, pc, sketch, submissions, _modeless, connect, scannow, time_now, foundOnScan, ap_on, border, _ssid, _pass, _configPortalTimeout, _connectTimeout, _configPortalStart, _shouldBreakAfterConfig, _tryConnectDuringConfigPortal, _savecallback, try_scan, wifiSSIDs, connectedDuringConfigPortal, argSsid, argPass, connRes, caller, radioCalls, wlStatus, staPending, connCause, wifiMode, storedSSID, scanState, radioScan, routes, dnsRunning, saveCalls, apCalls, attempts, exitReason, result, scanCall, page, _minimumQuality, qualityCall, _apPassword, softAP, _params, _paramsCount, overrun, staRoutes, restartedBy, autoConnectCall, waitCall, scanRequest, rendered, portalRuns, response, save, origin>>

\* one iteration of the population loop, and after the last one the
\* if (!foundOnScan) that follows the loop
RefreshPopulate ==
  /\ refresh.at = "populate"
  /\ LET i == refresh.i
         o == refresh.raw[i]
         found == foundOnScan \/ o.SSID = NvsNetwork
         last == i = Len(refresh.raw)
     IN /\ wifiSSIDs' = [wifiSSIDs EXCEPT ![i] = [SSID |-> o.SSID, RSSI |-> o.RSSI, duplicate |-> FALSE]]
        /\ foundOnScan' = found
        /\ refresh' = IF last THEN [refresh EXCEPT !.at = "sort", !.i = 1]
                              ELSE [refresh EXCEPT !.i = i + 1]
        /\ IF last /\ ~found
           THEN time_now' = now /\ ap_on' = FALSE /\ border' = ScanBorder
           ELSE UNCHANGED apVars
  /\ UNCHANGED <<now, elapses, pc, sketch, submissions, _modeless, connect, scannow, _ssid, _pass, _configPortalTimeout, _connectTimeout, _configPortalStart, _shouldBreakAfterConfig, _tryConnectDuringConfigPortal, _savecallback, shouldscan, try_scan, wifiSSIDCount, connectedDuringConfigPortal, argSsid, argPass, connRes, caller, radioCalls, wlStatus, staPending, connCause, wifiMode, storedSSID, scanState, radioScan, routes, dnsRunning, saveCalls, apCalls, attempts, exitReason, result, scanCall, page, _minimumQuality, qualityCall, _apPassword, softAP, _params, _paramsCount, overrun, staRoutes, restartedBy, autoConnectCall, waitCall, scanRequest, rendered, portalRuns, response, save, origin>>

\* one iteration of the outer loop of the RSSI sort
RefreshSort ==
  /\ refresh.at = "sort"
  /\ wifiSSIDs' = SortInner(wifiSSIDs, refresh.i, refresh.i + 1)
  /\ refresh' = IF refresh.i = Len(wifiSSIDs)
                THEN [refresh EXCEPT !.at = IF _removeDuplicateAPs THEN "dedup" ELSE "idle", !.i = 1]
                ELSE [refresh EXCEPT !.i = @ + 1]
  /\ UNCHANGED <<now, elapses, pc, sketch, submissions, _modeless, connect, scannow, time_now, foundOnScan, ap_on, border, _ssid, _pass, _configPortalTimeout, _connectTimeout, _configPortalStart, _shouldBreakAfterConfig, _tryConnectDuringConfigPortal, _savecallback, shouldscan, try_scan, wifiSSIDCount, connectedDuringConfigPortal, argSsid, argPass, connRes, caller, radioCalls, wlStatus, staPending, connCause, wifiMode, storedSSID, scanState, radioScan, routes, dnsRunning, saveCalls, apCalls, attempts, exitReason, result, scanCall, page, _minimumQuality, qualityCall, _apPassword, softAP, _params, _paramsCount, overrun, staRoutes, restartedBy, autoConnectCall, waitCall, scanRequest, rendered, portalRuns, response, save, origin>>

\* one iteration of the outer loop of the duplicate marking
RefreshDedup ==
  /\ refresh.at = "dedup"
  /\ wifiSSIDs' = IF wifiSSIDs[refresh.i].duplicate THEN wifiSSIDs
                  ELSE DedupInner(wifiSSIDs, refresh.i, refresh.i + 1)
  /\ refresh' = IF refresh.i = Len(wifiSSIDs)
                THEN [refresh EXCEPT !.at = "idle", !.i = 1]
                ELSE [refresh EXCEPT !.i = @ + 1]
  /\ UNCHANGED <<now, elapses, pc, sketch, submissions, _modeless, connect, scannow, time_now, foundOnScan, ap_on, border, _ssid, _pass, _configPortalTimeout, _connectTimeout, _configPortalStart, _shouldBreakAfterConfig, _tryConnectDuringConfigPortal, _savecallback, shouldscan, try_scan, wifiSSIDCount, connectedDuringConfigPortal, argSsid, argPass, connRes, caller, radioCalls, wlStatus, staPending, connCause, wifiMode, storedSSID, scanState, radioScan, routes, dnsRunning, saveCalls, apCalls, attempts, exitReason, result, scanCall, page, _minimumQuality, qualityCall, _apPassword, softAP, _params, _paramsCount, overrun, staRoutes, restartedBy, autoConnectCall, waitCall, scanRequest, rendered, portalRuns, response, save, origin>>

\* networkListAsString in the task of the web server, between two
\* statements of the refresh: the count and the array it reads, whether
\* that array has been deleted, and the two whole batches of this refresh
RenderReads ==
  /\ routes
  /\ rendered' = [sent |-> TRUE,
                  freed |-> refresh.at = "freed",
                  count |-> wifiSSIDCount,
                  batch |-> wifiSSIDs,
                  whole |-> {refresh.old, NewBatch(refresh.raw)}]
  /\ UNCHANGED <<now, elapses, pc, sketch, submissions, _modeless, connect, scannow, time_now, foundOnScan, ap_on, border, _ssid, _pass, _configPortalTimeout, _connectTimeout, _configPortalStart, _shouldBreakAfterConfig, _tryConnectDuringConfigPortal, _savecallback, shouldscan, try_scan, wifiSSIDs, wifiSSIDCount, connectedDuringConfigPortal, argSsid, argPass, connRes, caller, radioCalls, wlStatus, staPending, connCause, wifiMode, storedSSID, scanState, radioScan, routes, dnsRunning, saveCalls, apCalls, attempts, exitReason, result, scanCall, page, _minimumQuality, qualityCall, _apPassword, softAP, _params, _paramsCount, overrun, staRoutes, restartedBy, autoConnectCall, waitCall, scanRequest, refresh, portalRuns, response, save, origin>>

(* ------------------------------ listing -------------------------------- *)
\* getRSSIasQuality without the upper clamp
getRSSIasQualityUnclamped(RSSI) ==
  IF RSSI <= -100 THEN 0 ELSE 2 * (RSSI + 100)

\* getRSSIasQuality(RSSI)
getRSSIasQuality(RSSI) ==
  IF RSSI <= -100 THEN 0
  ELSE IF RSSI >= -50 THEN 100
  ELSE 2 * (RSSI + 100)

\* a call of getRSSIasQuality
getRSSIasQualityCall ==
  /\ \E r \in RssiInputs :
       qualityCall' = [called |-> TRUE, RSSI |-> r, quality |-> getRSSIasQuality(r)]
  /\ UNCHANGED <<now, elapses, pc, sketch, submissions, _modeless, connect, scannow, time_now, foundOnScan, ap_on, border, _ssid, _pass, _configPortalTimeout, _connectTimeout, _configPortalStart, _shouldBreakAfterConfig, _tryConnectDuringConfigPortal, _savecallback, shouldscan, try_scan, wifiSSIDs, wifiSSIDCount, connectedDuringConfigPortal, argSsid, argPass, connRes, caller, radioCalls, wlStatus, staPending, connCause, wifiMode, storedSSID, scanState, radioScan, routes, dnsRunning, saveCalls, apCalls, attempts, exitReason, result, scanCall, page, _minimumQuality, _apPassword, softAP, _params, _paramsCount, overrun, staRoutes, restartedBy, autoConnectCall, waitCall, scanRequest, refresh, rendered, portalRuns, response, save, origin>>

\* setMinimumSignalQuality(quality)
setMinimumSignalQuality ==
  /\ pc = "idle"
  /\ \E quality \in MinimumQualities : _minimumQuality' = quality
  /\ UNCHANGED <<now, elapses, pc, sketch, submissions, _modeless, connect, scannow, time_now, foundOnScan, ap_on, border, _ssid, _pass, _configPortalTimeout, _connectTimeout, _configPortalStart, _shouldBreakAfterConfig, _tryConnectDuringConfigPortal, _savecallback, shouldscan, try_scan, wifiSSIDs, wifiSSIDCount, connectedDuringConfigPortal, argSsid, argPass, connRes, caller, radioCalls, wlStatus, staPending, connCause, wifiMode, storedSSID, scanState, radioScan, routes, dnsRunning, saveCalls, apCalls, attempts, exitReason, result, scanCall, page, qualityCall, _apPassword, softAP, _params, _paramsCount, overrun, staRoutes, restartedBy, autoConnectCall, waitCall, scanRequest, refresh, rendered, portalRuns, response, save, origin>>

\* if (_minimumQuality == 0 || _minimumQuality < quality)
QualityPasses(quality) == _minimumQuality = 0 \/ _minimumQuality < quality

\* the item networkListAsString appends for entry i, if any
ListItem(i) ==
  IF wifiSSIDs[i].duplicate THEN <<>>
  ELSE IF QualityPasses(getRSSIasQuality(wifiSSIDs[i].RSSI))
  THEN <<[SSID |-> wifiSSIDs[i].SSID, quality |-> getRSSIasQuality(wifiSSIDs[i].RSSI)]>>
  ELSE <<>>

RECURSIVE ListFrom(_)
\* the loop of networkListAsString from entry i on
ListFrom(i) ==
  IF i > wifiSSIDCount THEN <<>> ELSE ListItem(i) \o ListFrom(i + 1)

\* networkListAsString()
networkListAsString == ListFrom(1)

\* handleWifi(request, true): the network part of the page
handleWifi ==
  /\ routes
  /\ page' = IF wifiSSIDCount = 0
             THEN [sent |-> TRUE, found |-> FALSE, items |-> <<>>]
             ELSE [sent |-> TRUE, found |-> TRUE, items |-> networkListAsString]
  /\ UNCHANGED <<now, elapses, pc, sketch, submissions, _modeless, connect, scannow, time_now, foundOnScan, ap_on, border, _ssid, _pass, _configPortalTimeout, _connectTimeout, _configPortalStart, _shouldBreakAfterConfig, _tryConnectDuringConfigPortal, _savecallback, shouldscan, try_scan, wifiSSIDs, wifiSSIDCount, connectedDuringConfigPortal, argSsid, argPass, connRes, caller, radioCalls, wlStatus, staPending, connCause, wifiMode, storedSSID, scanState, radioScan, routes, dnsRunning, saveCalls, apCalls, attempts, exitReason, result, scanCall, _minimumQuality, qualityCall, _apPassword, softAP, _params, _paramsCount, overrun, staRoutes, restartedBy, autoConnectCall, waitCall, scanRequest, refresh, rendered, portalRuns, response, save, origin>>

(* ------------------------------ radio ---------------------------------- *)
\* the status after WiFi.disconnect(false): the station leaves its network,
\* a begin() in flight is given up, stored credentials stay
AfterDisconnect == "WL_DISCONNECTED"

\* WiFi.disconnect(false): the station is disconnected, nothing is erased
DisconnectCall == [call |-> "disconnect", explicit |-> FALSE, ssid |-> "", pass |-> "", eraseap |-> FALSE]

\* WiFi.begin(ssid, pass)
BeginWith(ssid, pass) == [call |-> "begin", explicit |-> TRUE, ssid |-> ssid, pass |-> pass, eraseap |-> FALSE]

\* WiFi.begin()
BeginStored == [call |-> "begin", explicit |-> FALSE, ssid |-> "", pass |-> "", eraseap |-> FALSE]

\* ConnectWifiRadio without the disconnect before the begin() of the
\* remembered network
ConnectWifiRadioFastNoDisconnect(ssid, pass) ==
  IF ssid # ""
  THEN /\ radioCalls' = <<DisconnectCall, BeginWith(ssid, pass)>>
       /\ wlStatus' = AfterDisconnect
       /\ staPending' = "explicit"
       /\ storedSSID' = ssid
       /\ connCause' = "none"
  ELSE /\ radioCalls' = <<BeginStored>>
       /\ staPending' = "stored"
       /\ UNCHANGED <<wlStatus, connCause, storedSSID>>

\* the radio call sequence of connectWifi(ssid, pass)
ConnectWifiRadio(ssid, pass) ==
  IF ssid # ""
  THEN /\ radioCalls' = <<DisconnectCall, BeginWith(ssid, pass)>>
       /\ wlStatus' = AfterDisconnect
       /\ staPending' = "explicit"
       /\ storedSSID' = ssid
       /\ connCause' = "none"
  ELSE IF storedSSID # ""
  THEN /\ radioCalls' = <<DisconnectCall, BeginStored>>
       /\ wlStatus' = AfterDisconnect
       /\ staPending' = "stored"
       /\ connCause' = "none"
       /\ UNCHANGED storedSSID
  ELSE /\ radioCalls' = <<BeginStored>>
       /\ staPending' = "stored"
       /\ UNCHANGED <<wlStatus, connCause, storedSSID>>

\* connectWifi(ssid, pass) up to the call of waitForConnectResult
connectWifi(ssid, pass, from) ==
  /\ ConnectWifiRadio(ssid, pass)
  /\ argSsid' = ssid /\ argPass' = pass /\ caller' = from
  /\ attempts' = attempts + 1
  /\ pc' = "cw_wait"

\* where connectWifi returns to
ReturnTo(from) ==
  CASE from = "portal" -> "tick_after"
    [] from = "modelessStart" -> "ms_after"
    [] from = "autoConnect" -> "ac_after"
    [] OTHER -> "ml_after"

\* connectWifi returns res to its caller: its parameters are gone
connectWifiReturn(res) ==
  /\ connRes' = res
  /\ pc' = ReturnTo(caller)
  /\ argSsid' = "" /\ argPass' = "" /\ caller' = "none"
  /\ radioCalls' = <<>>

\* waitForConnectResult with _connectTimeout = 0: WiFi.waitForConnectResult()
\* returns the status the driver has when its own wait ends
WaitDriver ==
  /\ pc = "cw_wait"
  /\ _connectTimeout = 0
  /\ connectWifiReturn(wlStatus)
  /\ UNCHANGED <<now, elapses, sketch, submissions, _modeless, connect, scannow, time_now, foundOnScan, ap_on, border, _ssid, _pass, _configPortalTimeout, _connectTimeout, _configPortalStart, _shouldBreakAfterConfig, _tryConnectDuringConfigPortal, _savecallback, shouldscan, try_scan, wifiSSIDs, wifiSSIDCount, connectedDuringConfigPortal, wlStatus, staPending, connCause, wifiMode, storedSSID, scanState, radioScan, routes, dnsRunning, saveCalls, apCalls, attempts, exitReason, result, scanCall, page, _minimumQuality, qualityCall, _apPassword, softAP, _params, _paramsCount, overrun, staRoutes, restartedBy, autoConnectCall, waitCall, scanRequest, refresh, rendered, portalRuns, response, save, origin>>

\* the statuses that end the polling loop
PollEnds(st) == st = "WL_CONNECTED" \/ st = "WL_CONNECT_FAILED"

RECURSIVE PollLoop(_, _, _)
\* the polling loop of waitForConnectResult, entered at time start, from the
\* iteration that begins at time t, while WiFi.status() is st: millis() when
\* the loop is left.  Every iteration ends with delay(100).
PollLoop(t, start, st) ==
  IF t > start + _connectTimeout \/ PollEnds(st)
  THEN t + PollDelay
  ELSE PollLoop(t + PollDelay, start, st)

\* waitForConnectResult with _connectTimeout > 0, as one step: a begin()
\* that the driver finishes during the wait is seen by the first poll, one
\* that it finishes later is seen by no poll
WaitPoll ==
  /\ pc = "cw_wait"
  /\ _connectTimeout # 0
  /\ now' = PollLoop(now, now, wlStatus)
  /\ connectWifiReturn(wlStatus)
  /\ UNCHANGED <<elapses, sketch, submissions, _modeless, connect, scannow, time_now, foundOnScan, ap_on, border, _ssid, _pass, _configPortalTimeout, _connectTimeout, _configPortalStart, _shouldBreakAfterConfig, _tryConnectDuringConfigPortal, _savecallback, shouldscan, try_scan, wifiSSIDs, wifiSSIDCount, connectedDuringConfigPortal, wlStatus, staPending, connCause, wifiMode, storedSSID, scanState, radioScan, routes, dnsRunning, saveCalls, apCalls, attempts, exitReason, result, scanCall, page, _minimumQuality, qualityCall, _apPassword, softAP, _params, _paramsCount, overrun, staRoutes, restartedBy, autoConnectCall, waitCall, scanRequest, refresh, rendered, portalRuns, response, save, origin>>

\* the shorter of two lengths
Shorter(a, b) == IF a < b THEN a ELSE b

\* unsigned long arithmetic: millis() and start + _connectTimeout wrap
ClockModulus == 2 ^ ClockBits
millis(t) == t % ClockModulus

\* the delays of the polling loop are added up to this value and no further
WaitedCap == _connectTimeout + PollDelay

\* waitForConnectResult with _connectTimeout > 0, step by step: start =
\* millis(), keepConnecting = true
WaitEnter ==
  /\ pc = "cw_wait"
  /\ _connectTimeout # 0
  /\ waitCall' = [start |-> millis(now), status |-> "unset",
                  keepConnecting |-> TRUE, waited |-> 0]
  /\ pc' = "wf_poll"
  /\ UNCHANGED <<now, elapses, sketch, submissions, _modeless, connect, scannow, time_now, foundOnScan, ap_on, border, _ssid, _pass, _configPortalTimeout, _connectTimeout, _configPortalStart, _shouldBreakAfterConfig, _tryConnectDuringConfigPortal, _savecallback, shouldscan, try_scan, wifiSSIDs, wifiSSIDCount, connectedDuringConfigPortal, argSsid, argPass, connRes, caller, radioCalls, wlStatus, staPending, connCause, wifiMode, storedSSID, scanState, radioScan, routes, dnsRunning, saveCalls, apCalls, attempts, exitReason, result, scanCall, page, _minimumQuality, qualityCall, _apPassword, softAP, _params, _paramsCount, overrun, staRoutes, restartedBy, autoConnectCall, scanRequest, refresh, rendered, portalRuns, response, save, origin>>

\* one iteration of while (keepConnecting): status = WiFi.status(), the two
\* tests, delay(100)
WaitIteration ==
  /\ pc = "wf_poll"
  /\ LET timedOut == millis(now) > millis(waitCall.start + _connectTimeout)
         keep == ~timedOut /\ ~PollEnds(wlStatus)
     IN /\ waitCall' = [waitCall EXCEPT !.status = wlStatus,
                                        !.keepConnecting = keep,
                                        !.waited = Shorter(@ + PollDelay, WaitedCap)]
        /\ pc' = IF keep THEN "wf_poll" ELSE "wf_return"
  /\ now' = millis(now + PollDelay)
  /\ UNCHANGED <<elapses, sketch, submissions, _modeless, connect, scannow, time_now, foundOnScan, ap_on, border, _ssid, _pass, _configPortalTimeout, _connectTimeout, _configPortalStart, _shouldBreakAfterConfig, _tryConnectDuringConfigPortal, _savecallback, shouldscan, try_scan, wifiSSIDs, wifiSSIDCount, connectedDuringConfigPortal, argSsid, argPass, connRes, caller, radioCalls, wlStatus, staPending, connCause, wifiMode, storedSSID, scanState, radioScan, routes, dnsRunning, saveCalls, apCalls, attempts, exitReason, result, scanCall, page, _minimumQuality, qualityCall, _apPassword, softAP, _params, _paramsCount, overrun, staRoutes, restartedBy, autoConnectCall, scanRequest, refresh, rendered, portalRuns, response, save, origin>>

\* return status
WaitReturn ==
  /\ pc = "wf_return"
  /\ connectWifiReturn(waitCall.status)
  /\ UNCHANGED <<now, elapses, sketch, submissions, _modeless, connect, scannow, time_now, foundOnScan, ap_on, border, _ssid, _pass, _configPortalTimeout, _connectTimeout, _configPortalStart, _shouldBreakAfterConfig, _tryConnectDuringConfigPortal, _savecallback, shouldscan, try_scan, wifiSSIDs, wifiSSIDCount, connectedDuringConfigPortal, wlStatus, staPending, connCause, wifiMode, storedSSID, scanState, radioScan, routes, dnsRunning, saveCalls, apCalls, attempts, exitReason, result, scanCall, page, _minimumQuality, qualityCall, _apPassword, softAP, _params, _paramsCount, overrun, staRoutes, restartedBy, autoConnectCall, waitCall, scanRequest, refresh, rendered, portalRuns, response, save, origin>>

\* the driver finishes a begin(): the station is connected or has failed
RadioResolve ==
  /\ staPending # "none"
  /\ wlStatus' \in {"WL_CONNECT_FAILED"} \cup (IF storedSSID # "" THEN {"WL_CONNECTED"} ELSE {})
  /\ connCause' = staPending
  /\ staPending' = "none"
  /\ UNCHANGED <<now, elapses, pc, sketch, submissions, _modeless, connect, scannow, time_now, foundOnScan, ap_on, border, _ssid, _pass, _configPortalTimeout, _connectTimeout, _configPortalStart, _shouldBreakAfterConfig, _tryConnectDuringConfigPortal, _savecallback, shouldscan, try_scan, wifiSSIDs, wifiSSIDCount, connectedDuringConfigPortal, argSsid, argPass, connRes, caller, radioCalls, wifiMode, storedSSID, scanState, radioScan, routes, dnsRunning, saveCalls, apCalls, attempts, exitReason, result, scanCall, page, _minimumQuality, qualityCall, _apPassword, softAP, _params, _paramsCount, overrun, staRoutes, restartedBy, autoConnectCall, waitCall, scanRequest, refresh, rendered, portalRuns, response, save, origin>>

\* the driver finishes an asynchronous scan
ScanFinishes ==
  /\ scanState = "running"
  /\ scanState' = "done"
  /\ radioScan' \in ScanInputs
  /\ UNCHANGED <<now, elapses, pc, sketch, submissions, _modeless, connect, scannow, time_now, foundOnScan, ap_on, border, _ssid, _pass, _configPortalTimeout, _connectTimeout, _configPortalStart, _shouldBreakAfterConfig, _tryConnectDuringConfigPortal, _savecallback, shouldscan, try_scan, wifiSSIDs, wifiSSIDCount, connectedDuringConfigPortal, argSsid, argPass, connRes, caller, radioCalls, wlStatus, staPending, connCause, wifiMode, storedSSID, routes, dnsRunning, saveCalls, apCalls, attempts, exitReason, result, scanCall, page, _minimumQuality, qualityCall, _apPassword, softAP, _params, _paramsCount, overrun, staRoutes, restartedBy, autoConnectCall, waitCall, scanRequest, refresh, rendered, portalRuns, response, save, origin>>

\* time passes while the main task yields between two ticks
Elapse ==
  /\ pc \in {"loop", "ml_idle"}
  /\ elapses < MaxElapse
  /\ \E d \in ElapseSteps : now' = now + d
  /\ elapses' = elapses + 1
  /\ UNCHANGED <<pc, sketch, submissions, _modeless, connect, scannow, time_now, foundOnScan, ap_on, border, _ssid, _pass, _configPortalTimeout, _connectTimeout, _configPortalStart, _shouldBreakAfterConfig, _tryConnectDuringConfigPortal, _savecallback, shouldscan, try_scan, wifiSSIDs, wifiSSIDCount, connectedDuringConfigPortal, argSsid, argPass, connRes, caller, radioCalls, wlStatus, staPending, connCause, wifiMode, storedSSID, scanState, radioScan, routes, dnsRunning, saveCalls, apCalls, attempts, exitReason, result, scanCall, page, _minimumQuality, qualityCall, _apPassword, softAP, _params, _paramsCount, overrun, staRoutes, restartedBy, autoConnectCall, waitCall, scanRequest, refresh, rendered, portalRuns, response, save, origin>>

(* ------------------------ callbacks and setup -------------------------- *)
\* if (_savecallback != NULL) _savecallback();
InvokeSave == IF _savecallback THEN saveCalls + 1 ELSE saveCalls

\* the AP-entry callback is registered (setAPCallback)
_apcallback == TRUE

\* if (_apcallback != NULL) _apcallback(this);
InvokeAp == IF _apcallback THEN apCalls + 1 ELSE apCalls

\* AcceptedPassword without the test for a password that is too long
AcceptedPasswordNoUpperBound(apPassword) ==
  IF apPassword # NullPassword /\ apPassword < MinPasswordLength
  THEN NullPassword
  ELSE apPassword

\* the password setupConfigPortal keeps of apPassword (a length, or
\* NullPassword): if (strlen(_apPassword) < 8 || strlen(_apPassword) > 63)
\* _apPassword = NULL
AcceptedPassword(apPassword) ==
  IF apPassword # NullPassword
     /\ (apPassword < MinPasswordLength \/ apPassword > MaxPasswordLength)
  THEN NullPassword
  ELSE apPassword

\* setupConfigPortal(): all routes are reset, those of the portal are
\* registered, the soft
\* AP is brought up with the password kept of _apPassword, which is apPassword
\* on entry, or open; the DNS responder is started (a failed start is only
\* logged and leaves the responder stopped)
setupConfigPortal(apPassword) ==
  /\ _configPortalStart' = now
  /\ _apPassword' = AcceptedPassword(apPassword)
  /\ softAP' = [called |-> TRUE, apPassword |-> apPassword, password |-> AcceptedPassword(apPassword)]
  /\ now' = now + SetupDelay
  /\ dnsRunning' = TRUE
  /\ routes' = TRUE
  /\ staRoutes' = FALSE

(* -------------------------- blocking portal ---------------------------- *)
\* startConfigPortal(apName, apPassword) up to the first test of the loop
\* condition
StartConfigPortalEntry(apPassword) ==
  /\ connectedDuringConfigPortal' = FALSE
  /\ apCalls' = InvokeAp
  /\ connect' = FALSE
  /\ setupConfigPortal(apPassword)
  /\ scannow' = 0
  /\ time_now' = now + SetupDelay
  /\ portalRuns' = portalRuns + 1
  /\ pc' = "loop"

\* the sketch calls startConfigPortal(apName, apPassword)
StartConfigPortalWith(apPassword) ==
  /\ pc = "idle"
  /\ sketch = "blocking"
  /\ StartConfigPortalEntry(apPassword)
  /\ UNCHANGED <<elapses, sketch, submissions, _modeless, foundOnScan, ap_on, border, _ssid, _pass, _configPortalTimeout, _connectTimeout, _shouldBreakAfterConfig, _tryConnectDuringConfigPortal, _savecallback, shouldscan, try_scan, wifiSSIDs, wifiSSIDCount, argSsid, argPass, connRes, caller, radioCalls, wlStatus, staPending, connCause, wifiMode, storedSSID, scanState, radioScan, saveCalls, attempts, exitReason, result, scanCall, page, _minimumQuality, qualityCall, _params, _paramsCount, overrun, restartedBy, autoConnectCall, waitCall, scanRequest, refresh, rendered, response, save, origin>>

\* the sketch calls startConfigPortal(apName) again after it has returned
StartConfigPortalAgain ==
  /\ pc = "done"
  /\ sketch = "blocking"
  /\ portalRuns < MaxPortalRuns
  /\ StartConfigPortalEntry(NullPassword)
  /\ exitReason' = "none"
  /\ UNCHANGED <<elapses, sketch, submissions, _modeless, foundOnScan, ap_on, border, _ssid, _pass, _configPortalTimeout, _connectTimeout, _shouldBreakAfterConfig, _tryConnectDuringConfigPortal, _savecallback, shouldscan, try_scan, wifiSSIDs, wifiSSIDCount, argSsid, argPass, connRes, caller, radioCalls, wlStatus, staPending, connCause, wifiMode, storedSSID, scanState, radioScan, saveCalls, attempts, result, scanCall, page, _minimumQuality, qualityCall, _params, _paramsCount, overrun, restartedBy, autoConnectCall, waitCall, scanRequest, refresh, rendered, response, save, origin>>

\* startConfigPortal(apName): apPassword takes its default, NULL
StartConfigPortal == StartConfigPortalWith(NullPassword)

\* LoopCondition measuring from time_now instead of _configPortalStart
LoopConditionFromTimeNow ==
  _configPortalTimeout = 0 \/ now - time_now < _configPortalTimeout

\* LoopCondition without the test for an unbounded portal
LoopConditionNoZero ==
  now - _configPortalStart < _configPortalTimeout

\* the condition of the portal loop
LoopCondition ==
  _configPortalTimeout = 0 \/ now - _configPortalStart < _configPortalTimeout

\* the test of the loop condition at a tick boundary
LoopHead ==
  /\ pc = "loop"
  /\ IF LoopCondition
     THEN pc' = "tick_ap" /\ UNCHANGED exitReason
     ELSE pc' = "exit" /\ exitReason' = "TimedOut"
  /\ UNCHANGED <<now, elapses, sketch, submissions, _modeless, connect, scannow, time_now, foundOnScan, ap_on, border, _ssid, _pass, _configPortalTimeout, _connectTimeout, _configPortalStart, _shouldBreakAfterConfig, _tryConnectDuringConfigPortal, _savecallback, shouldscan, try_scan, wifiSSIDs, wifiSSIDCount, connectedDuringConfigPortal, argSsid, argPass, connRes, caller, radioCalls, wlStatus, staPending, connCause, wifiMode, storedSSID, scanState, radioScan, routes, dnsRunning, saveCalls, apCalls, attempts, result, scanCall, page, _minimumQuality, qualityCall, _apPassword, softAP, _params, _paramsCount, overrun, staRoutes, restartedBy, autoConnectCall, waitCall, scanRequest, refresh, rendered, portalRuns, response, save, origin>>

\* ApDue with only the test that looks at foundOnScan
ApDueOnlyWhenNotFound ==
  /\ (~foundOnScan /\ now - time_now > border)
  /\ ~ap_on

\* the condition under which a tick switches the radio to AP-only mode
ApDue ==
  /\ (now - time_now > border) \/ (~foundOnScan /\ now - time_now > border)
  /\ ~ap_on

\* TickAp marking AP active without the call of WiFi.mode(WIFI_AP)
TickApMarksOnly ==
  /\ pc = "tick_ap"
  /\ IF ApDue
     THEN /\ ap_on' = TRUE
          /\ UNCHANGED <<wifiMode, wlStatus, staPending, connCause>>
     ELSE UNCHANGED <<wifiMode, ap_on, wlStatus, staPending, connCause>>
  /\ pc' = "tick_scan"
  /\ UNCHANGED <<now, elapses, sketch, submissions, _modeless, connect, scannow, time_now, foundOnScan, border, _ssid, _pass, _configPortalTimeout, _connectTimeout, _configPortalStart, _shouldBreakAfterConfig, _tryConnectDuringConfigPortal, _savecallback, shouldscan, try_scan, wifiSSIDs, wifiSSIDCount, connectedDuringConfigPortal, argSsid, argPass, connRes, caller, radioCalls, storedSSID, scanState, radioScan, routes, dnsRunning, saveCalls, apCalls, attempts, exitReason, result, scanCall, page, _minimumQuality, qualityCall, _apPassword, softAP, _params, _paramsCount, overrun, staRoutes, restartedBy, autoConnectCall, waitCall, scanRequest, refresh, rendered, portalRuns, response, save, origin>>

\* the AP check of a tick; WiFi.mode(WIFI_AP) stops the station interface
TickAp ==
  /\ pc = "tick_ap"
  /\ IF ApDue
     THEN /\ wifiMode' = "WIFI_AP"
          /\ ap_on' = TRUE
          /\ wlStatus' = AfterDisconnect
          /\ staPending' = "none"
          /\ connCause' = "none"
     ELSE UNCHANGED <<wifiMode, ap_on, wlStatus, staPending, connCause>>
  /\ pc' = "tick_scan"
  /\ UNCHANGED <<now, elapses, sketch, submissions, _modeless, connect, scannow, time_now, foundOnScan, border, _ssid, _pass, _configPortalTimeout, _connectTimeout, _configPortalStart, _shouldBreakAfterConfig, _tryConnectDuringConfigPortal, _savecallback, shouldscan, try_scan, wifiSSIDs, wifiSSIDCount, connectedDuringConfigPortal, argSsid, argPass, connRes, caller, radioCalls, storedSSID, scanState, radioScan, routes, dnsRunning, saveCalls, apCalls, attempts, exitReason, result, scanCall, page, _minimumQuality, qualityCall, _apPassword, softAP, _params, _paramsCount, overrun, staRoutes, restartedBy, autoConnectCall, waitCall, scanRequest, refresh, rendered, portalRuns, response, save, origin>>

\* scannow == 0 || millis() - scannow >= interval
ScanDue(interval) == scannow = 0 \/ now - scannow >= interval

\* the scan section of a tick: disconnect, scanModal(), WiFi.begin()
TickScan ==
  /\ pc = "tick_scan"
  /\ IF ScanDue(PortalScanInterval)
     THEN /\ wlStatus' = AfterDisconnect
          /\ connCause' = "none"
          /\ IF ScanRuns
             THEN /\ \/ \E raw \in ScanInputs : copySSIDInfo(Len(raw), raw)
                     \/ copySSIDInfo(WIFI_SCAN_FAILED, <<>>)
                  /\ try_scan' = FALSE
                  /\ scanRequest' = [issued |-> TRUE, by |-> "startConfigPortal",
                                     disconnected |-> TRUE,
                                     count |-> scanRequest.count + 1]
             ELSE UNCHANGED <<batchVars, apVars, try_scan, scanRequest>>
          /\ IF _tryConnectDuringConfigPortal
             THEN staPending' = "reconnect" /\ connectedDuringConfigPortal' = TRUE
             ELSE staPending' = "none" /\ UNCHANGED connectedDuringConfigPortal
          /\ scannow' = now
     ELSE UNCHANGED <<wlStatus, connCause, batchVars, apVars, try_scan, staPending, connectedDuringConfigPortal, scannow, scanRequest>>
  /\ pc' = "tick_status"
  /\ UNCHANGED <<now, elapses, sketch, submissions, _modeless, connect, _ssid, _pass, _configPortalTimeout, _connectTimeout, _configPortalStart, _shouldBreakAfterConfig, _tryConnectDuringConfigPortal, _savecallback, argSsid, argPass, connRes, caller, radioCalls, wifiMode, storedSSID, scanState, radioScan, routes, dnsRunning, saveCalls, apCalls, attempts, exitReason, result, scanCall, page, _minimumQuality, qualityCall, _apPassword, softAP, _params, _paramsCount, overrun, staRoutes, restartedBy, autoConnectCall, waitCall, refresh, rendered, portalRuns, response, save, origin>>

\* the save callback is invoked by the status check
SaveAtStatus == ~connectedDuringConfigPortal /\ _savecallback

\* TickStatus giving way to a pending save request
TickStatusAfterRequest ==
  /\ pc = "tick_status"
  /\ IF wlStatus = "WL_CONNECTED" /\ ~connect
     THEN /\ saveCalls' = IF SaveAtStatus THEN saveCalls + 1 ELSE saveCalls
          /\ pc' = "exit"
          /\ exitReason' = "Connected"
     ELSE pc' = "tick_connect" /\ UNCHANGED <<saveCalls, exitReason>>
  /\ UNCHANGED <<now, elapses, sketch, submissions, _modeless, connect, scannow, time_now, foundOnScan, ap_on, border, _ssid, _pass, _configPortalTimeout, _connectTimeout, _configPortalStart, _shouldBreakAfterConfig, _tryConnectDuringConfigPortal, _savecallback, shouldscan, try_scan, wifiSSIDs, wifiSSIDCount, connectedDuringConfigPortal, argSsid, argPass, connRes, caller, radioCalls, wlStatus, staPending, connCause, wifiMode, storedSSID, scanState, radioScan, routes, dnsRunning, apCalls, attempts, result, scanCall, page, _minimumQuality, qualityCall, _apPassword, softAP, _params, _paramsCount, overrun, staRoutes, restartedBy, autoConnectCall, waitCall, scanRequest, refresh, rendered, portalRuns, response, save, origin>>

\* the status check of a tick
TickStatus ==
  /\ pc = "tick_status"
  /\ IF wlStatus = "WL_CONNECTED"
     THEN /\ saveCalls' = IF SaveAtStatus THEN saveCalls + 1 ELSE saveCalls
          /\ pc' = "exit"
          /\ exitReason' = "Connected"
     ELSE pc' = "tick_connect" /\ UNCHANGED <<saveCalls, exitReason>>
  /\ UNCHANGED <<now, elapses, sketch, submissions, _modeless, connect, scannow, time_now, foundOnScan, ap_on, border, _ssid, _pass, _configPortalTimeout, _connectTimeout, _configPortalStart, _shouldBreakAfterConfig, _tryConnectDuringConfigPortal, _savecallback, shouldscan, try_scan, wifiSSIDs, wifiSSIDCount, connectedDuringConfigPortal, argSsid, argPass, connRes, caller, radioCalls, wlStatus, staPending, connCause, wifiMode, storedSSID, scanState, radioScan, routes, dnsRunning, apCalls, attempts, result, scanCall, page, _minimumQuality, qualityCall, _apPassword, softAP, _params, _paramsCount, overrun, staRoutes, restartedBy, autoConnectCall, waitCall, scanRequest, refresh, rendered, portalRuns, response, save, origin>>

\* TickConnect leaving the request flag set
TickConnectKeepsRequest ==
  /\ pc = "tick_connect"
  /\ IF connect
     THEN now' = now + ConnectDelay /\ pc' = "tick_doconnect"
     ELSE pc' = "loop" /\ UNCHANGED now
  /\ UNCHANGED <<elapses, sketch, submissions, _modeless, connect, scannow, time_now, foundOnScan, ap_on, border, _ssid, _pass, _configPortalTimeout, _connectTimeout, _configPortalStart, _shouldBreakAfterConfig, _tryConnectDuringConfigPortal, _savecallback, shouldscan, try_scan, wifiSSIDs, wifiSSIDCount, connectedDuringConfigPortal, argSsid, argPass, connRes, caller, radioCalls, wlStatus, staPending, connCause, wifiMode, storedSSID, scanState, radioScan, routes, dnsRunning, saveCalls, apCalls, attempts, exitReason, result, scanCall, page, _minimumQuality, qualityCall, _apPassword, softAP, _params, _paramsCount, overrun, staRoutes, restartedBy, autoConnectCall, waitCall, scanRequest, refresh, rendered, portalRuns, response, save, origin>>

\* if (connect) { connect = false; delay(2000); ... } else yield()
TickConnect ==
  /\ pc = "tick_connect"
  /\ IF connect
     THEN connect' = FALSE /\ now' = now + ConnectDelay /\ pc' = "tick_doconnect"
     ELSE pc' = "loop" /\ UNCHANGED <<connect, now>>
  /\ UNCHANGED <<elapses, sketch, submissions, _modeless, scannow, time_now, foundOnScan, ap_on, border, _ssid, _pass, _configPortalTimeout, _connectTimeout, _configPortalStart, _shouldBreakAfterConfig, _tryConnectDuringConfigPortal, _savecallback, shouldscan, try_scan, wifiSSIDs, wifiSSIDCount, connectedDuringConfigPortal, argSsid, argPass, connRes, caller, radioCalls, wlStatus, staPending, connCause, wifiMode, storedSSID, scanState, radioScan, routes, dnsRunning, saveCalls, apCalls, attempts, exitReason, result, scanCall, page, _minimumQuality, qualityCall, _apPassword, softAP, _params, _paramsCount, overrun, staRoutes, restartedBy, autoConnectCall, waitCall, scanRequest, refresh, rendered, portalRuns, response, save, origin>>

\* TickDoConnect connecting with the stored credentials
TickDoConnectStored ==
  /\ pc = "tick_doconnect"
  /\ IF _tryConnectDuringConfigPortal
     THEN connectWifi("", "", "portal")
     ELSE pc' = "tick_after" /\ UNCHANGED <<staVars, callVars, attempts>>
  /\ UNCHANGED <<now, elapses, sketch, submissions, _modeless, connect, scannow, time_now, foundOnScan, ap_on, border, _ssid, _pass, _configPortalTimeout, _connectTimeout, _configPortalStart, _shouldBreakAfterConfig, _tryConnectDuringConfigPortal, _savecallback, shouldscan, try_scan, wifiSSIDs, wifiSSIDCount, connectedDuringConfigPortal, connRes, wifiMode, scanState, radioScan, routes, dnsRunning, saveCalls, apCalls, exitReason, result, scanCall, page, _minimumQuality, qualityCall, _apPassword, softAP, _params, _paramsCount, overrun, staRoutes, restartedBy, autoConnectCall, waitCall, scanRequest, refresh, rendered, portalRuns, response, save, origin>>

\* _tryConnectDuringConfigPortal and connectWifi(_ssid, _pass)
TickDoConnect ==
  /\ pc = "tick_doconnect"
  /\ IF _tryConnectDuringConfigPortal
     THEN connectWifi(_ssid, _pass, "portal")
     ELSE pc' = "tick_after" /\ UNCHANGED <<staVars, callVars, attempts>>
  /\ UNCHANGED <<now, elapses, sketch, submissions, _modeless, connect, scannow, time_now, foundOnScan, ap_on, border, _ssid, _pass, _configPortalTimeout, _connectTimeout, _configPortalStart, _shouldBreakAfterConfig, _tryConnectDuringConfigPortal, _savecallback, shouldscan, try_scan, wifiSSIDs, wifiSSIDCount, connectedDuringConfigPortal, connRes, wifiMode, scanState, radioScan, routes, dnsRunning, saveCalls, apCalls, exitReason, result, scanCall, page, _minimumQuality, qualityCall, _apPassword, softAP, _params, _paramsCount, overrun, staRoutes, restartedBy, autoConnectCall, waitCall, scanRequest, refresh, rendered, portalRuns, response, save, origin>>

\* the connection attempt of the tick ended connected
AttemptConnected == _tryConnectDuringConfigPortal /\ connRes = "WL_CONNECTED"

\* BreakAfterConfig tested only where a connection was tried
BreakOnlyIfTried == _shouldBreakAfterConfig /\ _tryConnectDuringConfigPortal

\* BreakAfterConfig taken on every failure
BreakAlways == TRUE

\* if (_shouldBreakAfterConfig)
BreakAfterConfig == _shouldBreakAfterConfig

\* the rest of the tick after the connection attempt
TickAfter ==
  /\ pc = "tick_after"
  /\ IF AttemptConnected
     THEN /\ saveCalls' = InvokeSave
          /\ pc' = "exit"
          /\ exitReason' = "Connected"
          /\ UNCHANGED time_now
     ELSE /\ time_now' = IF _tryConnectDuringConfigPortal THEN now ELSE time_now
          /\ IF BreakAfterConfig
             THEN saveCalls' = InvokeSave /\ pc' = "exit" /\ exitReason' = "BreakAfterConfig"
             ELSE pc' = "loop" /\ UNCHANGED <<saveCalls, exitReason>>
  /\ connRes' = "WL_IDLE_STATUS"
  /\ UNCHANGED <<now, elapses, sketch, submissions, _modeless, connect, scannow, foundOnScan, ap_on, border, _ssid, _pass, _configPortalTimeout, _connectTimeout, _configPortalStart, _shouldBreakAfterConfig, _tryConnectDuringConfigPortal, _savecallback, shouldscan, try_scan, wifiSSIDs, wifiSSIDCount, connectedDuringConfigPortal, argSsid, argPass, caller, radioCalls, wlStatus, staPending, connCause, wifiMode, storedSSID, scanState, radioScan, routes, dnsRunning, apCalls, attempts, result, scanCall, page, _minimumQuality, qualityCall, _apPassword, softAP, _params, _paramsCount, overrun, staRoutes, restartedBy, autoConnectCall, waitCall, scanRequest, refresh, rendered, portalRuns, response, save, origin>>

\* PortalExit returning by the way the loop was left
PortalExitReturnsExitReason ==
  /\ pc = "exit"
  /\ routes' = FALSE
  /\ staRoutes' = FALSE
  /\ dnsRunning' = FALSE
  /\ result' = (exitReason = "Connected")
  /\ pc' = "done"
  /\ UNCHANGED <<now, elapses, sketch, submissions, _modeless, connect, scannow, time_now, foundOnScan, ap_on, border, _ssid, _pass, _configPortalTimeout, _connectTimeout, _configPortalStart, _shouldBreakAfterConfig, _tryConnectDuringConfigPortal, _savecallback, shouldscan, try_scan, wifiSSIDs, wifiSSIDCount, connectedDuringConfigPortal, argSsid, argPass, connRes, caller, radioCalls, wlStatus, staPending, connCause, wifiMode, storedSSID, scanState, radioScan, saveCalls, apCalls, attempts, exitReason, scanCall, page, _minimumQuality, qualityCall, _apPassword, softAP, _params, _paramsCount, overrun, restartedBy, autoConnectCall, waitCall, scanRequest, refresh, rendered, portalRuns, response, save, origin>>

\* PortalExit without dnsServer->stop()
PortalExitKeepsDns ==
  /\ pc = "exit"
  /\ routes' = FALSE
  /\ staRoutes' = FALSE
  /\ result' = (wlStatus = "WL_CONNECTED")
  /\ pc' = "done"
  /\ UNCHANGED <<now, elapses, sketch, submissions, _modeless, connect, scannow, time_now, foundOnScan, ap_on, border, _ssid, _pass, _configPortalTimeout, _connectTimeout, _configPortalStart, _shouldBreakAfterConfig, _tryConnectDuringConfigPortal, _savecallback, shouldscan, try_scan, wifiSSIDs, wifiSSIDCount, connectedDuringConfigPortal, argSsid, argPass, connRes, caller, radioCalls, wlStatus, staPending, connCause, wifiMode, storedSSID, scanState, radioScan, dnsRunning, saveCalls, apCalls, attempts, exitReason, scanCall, page, _minimumQuality, qualityCall, _apPassword, softAP, _params, _paramsCount, overrun, restartedBy, autoConnectCall, waitCall, scanRequest, refresh, rendered, portalRuns, response, save, origin>>

\* after the loop: server->reset(); dnsServer->stop(); return the status
PortalExit ==
  /\ pc = "exit"
  /\ routes' = FALSE
  /\ staRoutes' = FALSE
  /\ dnsRunning' = FALSE
  /\ result' = (wlStatus = "WL_CONNECTED")
  /\ pc' = "done"
  /\ UNCHANGED <<now, elapses, sketch, submissions, _modeless, connect, scannow, time_now, foundOnScan, ap_on, border, _ssid, _pass, _configPortalTimeout, _connectTimeout, _configPortalStart, _shouldBreakAfterConfig, _tryConnectDuringConfigPortal, _savecallback, shouldscan, try_scan, wifiSSIDs, wifiSSIDCount, connectedDuringConfigPortal, argSsid, argPass, connRes, caller, radioCalls, wlStatus, staPending, connCause, wifiMode, storedSSID, scanState, radioScan, saveCalls, apCalls, attempts, exitReason, scanCall, page, _minimumQuality, qualityCall, _apPassword, softAP, _params, _paramsCount, overrun, restartedBy, autoConnectCall, waitCall, scanRequest, refresh, rendered, portalRuns, response, save, origin>>

(* ----------------------------- autoConnect ----------------------------- *)
\* values of maxConnectRetries
RetryCounts == 0..MaxConnectRetries
\* values of retryDelayMs: none, and one that is no multiple of the slice
RetryDelays == {0, 2 * DelaySlice + DelaySlice \div 2}

\* the sketch calls autoConnect(apName, apPassword, maxConnectRetries,
\* retryDelayMs): WiFi.mode(WIFI_AP_STA), then the first test of the for loop
autoConnect ==
  /\ pc = "idle"
  /\ sketch = "blocking"
  /\ ~autoConnectCall.called
  /\ wifiMode' = "WIFI_AP_STA"
  /\ \E m \in RetryCounts, d \in RetryDelays :
       autoConnectCall' = [called |-> TRUE, apPassword |-> NullPassword,
                           maxConnectRetries |-> m, retryDelayMs |-> d,
                           tryNumber |-> 0, restDelayMs |-> 0, returned |-> "none"]
  /\ pc' = "ac_loop"
  /\ UNCHANGED <<now, elapses, sketch, submissions, _modeless, connect, scannow, time_now, foundOnScan, ap_on, border, _ssid, _pass, _configPortalTimeout, _connectTimeout, _configPortalStart, _shouldBreakAfterConfig, _tryConnectDuringConfigPortal, _savecallback, shouldscan, try_scan, wifiSSIDs, wifiSSIDCount, connectedDuringConfigPortal, argSsid, argPass, connRes, caller, radioCalls, wlStatus, staPending, connCause, storedSSID, scanState, radioScan, routes, dnsRunning, saveCalls, apCalls, attempts, exitReason, result, scanCall, page, _minimumQuality, qualityCall, _apPassword, softAP, _params, _paramsCount, overrun, staRoutes, restartedBy, waitCall, scanRequest, refresh, rendered, portalRuns, response, save, origin>>

\* AutoConnectTry making one attempt more than maxConnectRetries
AutoConnectTryOneMore ==
  /\ pc = "ac_loop"
  /\ IF autoConnectCall.tryNumber <= autoConnectCall.maxConnectRetries
     THEN /\ connectWifi("", "", "autoConnect")
          /\ UNCHANGED <<autoConnectCall, connectedDuringConfigPortal, apCalls, connect, _configPortalStart, apPassVars, now, dnsRunning, routes, scannow, time_now, staRoutes, portalRuns>>
     ELSE /\ StartConfigPortalEntry(autoConnectCall.apPassword)
          /\ autoConnectCall' = [autoConnectCall EXCEPT !.returned = "portal"]
          /\ UNCHANGED <<staVars, callVars, attempts>>
  /\ UNCHANGED <<elapses, sketch, submissions, _modeless, foundOnScan, ap_on, border, _ssid, _pass, _configPortalTimeout, _connectTimeout, _shouldBreakAfterConfig, _tryConnectDuringConfigPortal, _savecallback, shouldscan, try_scan, wifiSSIDs, wifiSSIDCount, connRes, wifiMode, scanState, radioScan, saveCalls, exitReason, result, scanCall, page, _minimumQuality, qualityCall, _params, _paramsCount, overrun, restartedBy, waitCall, scanRequest, refresh, rendered, response, save, origin>>

\* the test of the for loop: the next connectWifi("", ""), or after
\* maxConnectRetries of them return startConfigPortal(apName, apPassword)
AutoConnectTry ==
  /\ pc = "ac_loop"
  /\ IF autoConnectCall.tryNumber < autoConnectCall.maxConnectRetries
     THEN /\ connectWifi("", "", "autoConnect")
          /\ UNCHANGED <<autoConnectCall, connectedDuringConfigPortal, apCalls, connect, _configPortalStart, apPassVars, now, dnsRunning, routes, scannow, time_now, staRoutes, portalRuns>>
     ELSE /\ StartConfigPortalEntry(autoConnectCall.apPassword)
          /\ autoConnectCall' = [autoConnectCall EXCEPT !.returned = "portal"]
          /\ UNCHANGED <<staVars, callVars, attempts>>
  /\ UNCHANGED <<elapses, sketch, submissions, _modeless, foundOnScan, ap_on, border, _ssid, _pass, _configPortalTimeout, _connectTimeout, _shouldBreakAfterConfig, _tryConnectDuringConfigPortal, _savecallback, shouldscan, try_scan, wifiSSIDs, wifiSSIDCount, connRes, wifiMode, scanState, radioScan, saveCalls, exitReason, result, scanCall, page, _minimumQuality, qualityCall, _params, _paramsCount, overrun, restartedBy, waitCall, scanRequest, refresh, rendered, response, save, origin>>

\* after connectWifi returned: return true, or enter the delay loop if
\* another try follows, or go to the next test of the for loop
AutoConnectAfter ==
  /\ pc = "ac_after"
  /\ IF connRes = "WL_CONNECTED"
     THEN /\ autoConnectCall' = [autoConnectCall EXCEPT !.returned = "true"]
          /\ pc' = "ac_done"
     ELSE IF autoConnectCall.tryNumber + 1 < autoConnectCall.maxConnectRetries
     THEN /\ autoConnectCall' = [autoConnectCall EXCEPT !.restDelayMs = autoConnectCall.retryDelayMs]
          /\ pc' = "ac_delay"
     ELSE /\ autoConnectCall' = [autoConnectCall EXCEPT !.tryNumber = @ + 1]
          /\ pc' = "ac_loop"
  /\ connRes' = "WL_IDLE_STATUS"
  /\ UNCHANGED <<now, elapses, sketch, submissions, _modeless, connect, scannow, time_now, foundOnScan, ap_on, border, _ssid, _pass, _configPortalTimeout, _connectTimeout, _configPortalStart, _shouldBreakAfterConfig, _tryConnectDuringConfigPortal, _savecallback, shouldscan, try_scan, wifiSSIDs, wifiSSIDCount, connectedDuringConfigPortal, argSsid, argPass, caller, radioCalls, wlStatus, staPending, connCause, wifiMode, storedSSID, scanState, radioScan, routes, dnsRunning, saveCalls, apCalls, attempts, exitReason, result, scanCall, page, _minimumQuality, qualityCall, _apPassword, softAP, _params, _paramsCount, overrun, staRoutes, restartedBy, waitCall, scanRequest, refresh, rendered, portalRuns, response, save, origin>>

\* one test of while (restDelayMs > 0) and the iteration it admits: return
\* true if the station is connected, else delay(min(restDelayMs, 100))
AutoConnectDelay ==
  /\ pc = "ac_delay"
  /\ IF autoConnectCall.restDelayMs > 0
     THEN IF wlStatus = "WL_CONNECTED"
          THEN /\ autoConnectCall' = [autoConnectCall EXCEPT !.returned = "true"]
               /\ pc' = "ac_done"
               /\ UNCHANGED now
          ELSE /\ now' = now + Shorter(autoConnectCall.restDelayMs, DelaySlice)
               /\ autoConnectCall' = [autoConnectCall EXCEPT
                                        !.restDelayMs = @ - Shorter(@, DelaySlice)]
               /\ pc' = "ac_delay"
     ELSE /\ autoConnectCall' = [autoConnectCall EXCEPT !.tryNumber = @ + 1]
          /\ pc' = "ac_loop"
          /\ UNCHANGED now
  /\ UNCHANGED <<elapses, sketch, submissions, _modeless, connect, scannow, time_now, foundOnScan, ap_on, border, _ssid, _pass, _configPortalTimeout, _connectTimeout, _configPortalStart, _shouldBreakAfterConfig, _tryConnectDuringConfigPortal, _savecallback, shouldscan, try_scan, wifiSSIDs, wifiSSIDCount, connectedDuringConfigPortal, argSsid, argPass, connRes, caller, radioCalls, wlStatus, staPending, connCause, wifiMode, storedSSID, scanState, radioScan, routes, dnsRunning, saveCalls, apCalls, attempts, exitReason, result, scanCall, page, _minimumQuality, qualityCall, _apPassword, softAP, _params, _paramsCount, overrun, staRoutes, restartedBy, waitCall, scanRequest, refresh, rendered, portalRuns, response, save, origin>>

(* -------------------------- modeless portal ---------------------------- *)
\* startConfigPortalModeless(apName, apPassword) up to its call
\* connectWifi("", "")
StartConfigPortalModelessWith(apPassword) ==
  /\ pc = "idle"
  /\ sketch = "modeless"
  /\ _modeless' = TRUE
  /\ _apPassword' = apPassword
  /\ connectWifi("", "", "modelessStart")
  /\ UNCHANGED <<now, elapses, sketch, submissions, connect, scannow, time_now, foundOnScan, ap_on, border, _ssid, _pass, _configPortalTimeout, _connectTimeout, _configPortalStart, _shouldBreakAfterConfig, _tryConnectDuringConfigPortal, _savecallback, shouldscan, try_scan, wifiSSIDs, wifiSSIDCount, connectedDuringConfigPortal, connRes, wifiMode, scanState, radioScan, routes, dnsRunning, saveCalls, apCalls, exitReason, result, scanCall, page, _minimumQuality, qualityCall, softAP, _params, _paramsCount, overrun, staRoutes, restartedBy, autoConnectCall, waitCall, scanRequest, refresh, rendered, portalRuns, response, save, origin>>

\* startConfigPortalModeless(apName, NULL): a portal without password
StartConfigPortalModeless == StartConfigPortalModelessWith(NullPassword)

\* ModelessSetup notifying the AP entry only when the attempt failed
ModelessSetupApOnFailure ==
  /\ pc = "ms_after"
  /\ saveCalls' = IF connRes = "WL_CONNECTED" THEN InvokeSave ELSE saveCalls
  /\ apCalls' = IF connRes = "WL_CONNECTED" THEN apCalls ELSE InvokeAp
  /\ connect' = FALSE
  /\ setupConfigPortal(_apPassword)
  /\ scannow' = 0
  /\ connRes' = "WL_IDLE_STATUS"
  /\ pc' = "ml_idle"
  /\ UNCHANGED <<elapses, sketch, submissions, _modeless, time_now, foundOnScan, ap_on, border, _ssid, _pass, _configPortalTimeout, _connectTimeout, _shouldBreakAfterConfig, _tryConnectDuringConfigPortal, _savecallback, shouldscan, try_scan, wifiSSIDs, wifiSSIDCount, connectedDuringConfigPortal, argSsid, argPass, caller, radioCalls, wlStatus, staPending, connCause, wifiMode, storedSSID, scanState, radioScan, attempts, exitReason, result, scanCall, page, _minimumQuality, qualityCall, _params, _paramsCount, overrun, restartedBy, autoConnectCall, waitCall, scanRequest, refresh, rendered, portalRuns, response, save, origin>>

\* startConfigPortalModeless() after connectWifi returned
ModelessSetup ==
  /\ pc = "ms_after"
  /\ saveCalls' = IF connRes = "WL_CONNECTED" THEN InvokeSave ELSE saveCalls
  /\ apCalls' = InvokeAp
  /\ connect' = FALSE
  /\ setupConfigPortal(_apPassword)
  /\ scannow' = 0
  /\ connRes' = "WL_IDLE_STATUS"
  /\ pc' = "ml_idle"
  /\ UNCHANGED <<elapses, sketch, submissions, _modeless, time_now, foundOnScan, ap_on, border, _ssid, _pass, _configPortalTimeout, _connectTimeout, _shouldBreakAfterConfig, _tryConnectDuringConfigPortal, _savecallback, shouldscan, try_scan, wifiSSIDs, wifiSSIDCount, connectedDuringConfigPortal, argSsid, argPass, caller, radioCalls, wlStatus, staPending, connCause, wifiMode, storedSSID, scanState, radioScan, attempts, exitReason, result, scanCall, page, _minimumQuality, qualityCall, _params, _paramsCount, overrun, restartedBy, autoConnectCall, waitCall, scanRequest, refresh, rendered, portalRuns, response, save, origin>>

\* WiFi.scanComplete() after the scan section of criticalLoop
ScanComplete(started) ==
  IF started \/ scanState = "running" THEN WIFI_SCAN_RUNNING
  ELSE IF scanState = "done" THEN Len(radioScan)
  ELSE WIFI_SCAN_FAILED

\* criticalLoop() up to the test of connect: the scan section and the
\* refresh of the batch from a finished asynchronous scan
CriticalLoopScan ==
  /\ pc = "ml_idle"
  /\ _modeless
  /\ scannow' = IF ScanDue(ModelessScanInterval) THEN now ELSE scannow
  /\ try_scan' = IF ScanDue(ModelessScanInterval) /\ ScanRuns THEN FALSE ELSE try_scan
  /\ LET started == ScanDue(ModelessScanInterval) /\ ScanRuns
         n == ScanComplete(started)
     IN  /\ scanRequest' = IF started
                           THEN [issued |-> TRUE, by |-> "criticalLoop",
                                 disconnected |-> FALSE,
                                 count |-> scanRequest.count + 1]
                           ELSE scanRequest
         /\ IF n >= 0
            THEN copySSIDInfo(n, radioScan) /\ scanState' = "idle" /\ radioScan' = <<>>
            ELSE /\ scanState' = IF started THEN "running" ELSE scanState
                 /\ UNCHANGED <<radioScan, batchVars, apVars>>
  /\ pc' = "ml_connect"
  /\ UNCHANGED <<now, elapses, sketch, submissions, _modeless, connect, _ssid, _pass, _configPortalTimeout, _connectTimeout, _configPortalStart, _shouldBreakAfterConfig, _tryConnectDuringConfigPortal, _savecallback, connectedDuringConfigPortal, argSsid, argPass, connRes, caller, radioCalls, wlStatus, staPending, connCause, wifiMode, storedSSID, routes, dnsRunning, saveCalls, apCalls, attempts, exitReason, result, scanCall, page, _minimumQuality, qualityCall, _apPassword, softAP, _params, _paramsCount, overrun, staRoutes, restartedBy, autoConnectCall, waitCall, refresh, rendered, portalRuns, response, save, origin>>

\* criticalLoop(): if (connect) { connect = false; connectWifi(_ssid, _pass)
CriticalLoopConnect ==
  /\ pc = "ml_connect"
  /\ IF connect
     THEN connect' = FALSE /\ connectWifi(_ssid, _pass, "modelessTick")
     ELSE pc' = "ml_idle" /\ UNCHANGED <<connect, staVars, callVars, attempts>>
  /\ UNCHANGED <<now, elapses, sketch, submissions, _modeless, scannow, time_now, foundOnScan, ap_on, border, _ssid, _pass, _configPortalTimeout, _connectTimeout, _configPortalStart, _shouldBreakAfterConfig, _tryConnectDuringConfigPortal, _savecallback, shouldscan, try_scan, wifiSSIDs, wifiSSIDCount, connectedDuringConfigPortal, connRes, wifiMode, scanState, radioScan, routes, dnsRunning, saveCalls, apCalls, exitReason, result, scanCall, page, _minimumQuality, qualityCall, _apPassword, softAP, _params, _paramsCount, overrun, staRoutes, restartedBy, autoConnectCall, waitCall, scanRequest, refresh, rendered, portalRuns, response, save, origin>>

\* criticalLoop() after connectWifi returned
CriticalLoopAfter ==
  /\ pc = "ml_after"
  /\ IF connRes # "WL_CONNECTED"
     THEN /\ time_now' = now
          /\ saveCalls' = IF _shouldBreakAfterConfig THEN InvokeSave ELSE saveCalls
          /\ UNCHANGED exitReason
     ELSE saveCalls' = InvokeSave /\ exitReason' = "Connected" /\ UNCHANGED time_now
  /\ connRes' = "WL_IDLE_STATUS"
  /\ pc' = "ml_idle"
  /\ UNCHANGED <<now, elapses, sketch, submissions, _modeless, connect, scannow, foundOnScan, ap_on, border, _ssid, _pass, _configPortalTimeout, _connectTimeout, _configPortalStart, _shouldBreakAfterConfig, _tryConnectDuringConfigPortal, _savecallback, shouldscan, try_scan, wifiSSIDs, wifiSSIDCount, connectedDuringConfigPortal, argSsid, argPass, caller, radioCalls, wlStatus, staPending, connCause, wifiMode, storedSSID, scanState, radioScan, routes, dnsRunning, apCalls, attempts, result, scanCall, page, _minimumQuality, qualityCall, _apPassword, softAP, _params, _paramsCount, overrun, staRoutes, restartedBy, autoConnectCall, waitCall, scanRequest, refresh, rendered, portalRuns, response, save, origin>>

(* ---------------------------- parameters ------------------------------- *)
\* AsyncWiFiManagerParameter::init: _length = length, _value is a buffer of
\* length + 1 bytes whose first length bytes are zeroed and then take
\* strncpy(_value, defaultValue, length); the string it holds for a default
\* shorter than length
init(defaultValue, length) ==
  [_length |-> length, _value |-> SubSeq(defaultValue, 1, Shorter(length, Len(defaultValue)))]

\* the parameters a sketch constructs
Parameters == {init(a.defaultValue, a.length) : a \in ParameterArgs}

\* addParameter(p): _params[_paramsCount] = p; _paramsCount++; there is no
\* test of _paramsCount against the size of _params.  A write to a slot
\* outside the array is undefined: the program goes on or stops.
addParameter ==
  /\ pc = "idle"
  /\ _paramsCount < MaxAddParameter
  /\ \E p \in Parameters : _params' = Append(_params, p)
  /\ _paramsCount' = _paramsCount + 1
  /\ overrun' = (overrun \/ _paramsCount >= WIFI_MANAGER_MAX_PARAMS)
  /\ IF _paramsCount >= WIFI_MANAGER_MAX_PARAMS
     THEN pc' \in {pc, "fault"}
     ELSE pc' = pc
  /\ UNCHANGED <<now, elapses, sketch, submissions, _modeless, connect, scannow, time_now, foundOnScan, ap_on, border, _ssid, _pass, _configPortalTimeout, _connectTimeout, _configPortalStart, _shouldBreakAfterConfig, _tryConnectDuringConfigPortal, _savecallback, shouldscan, try_scan, wifiSSIDs, wifiSSIDCount, connectedDuringConfigPortal, argSsid, argPass, connRes, caller, radioCalls, wlStatus, staPending, connCause, wifiMode, storedSSID, scanState, radioScan, routes, dnsRunning, saveCalls, apCalls, attempts, exitReason, result, scanCall, page, _minimumQuality, qualityCall, _apPassword, softAP, staRoutes, restartedBy, autoConnectCall, waitCall, scanRequest, refresh, rendered, portalRuns, response, save, origin>>

\* value.toCharArray(buf, bufsize): the string buf holds afterwards, buf being
\* the string it held before; String::toCharArray copies at most bufsize - 1
\* characters and ends them with a zero byte, and does nothing for bufsize 0
toCharArray(value, buf, bufsize) ==
  IF bufsize = 0 THEN buf
  ELSE SubSeq(value, 1, Shorter(bufsize - 1, Len(value)))

\* request->arg(id) for the field the request has for id: the value of the
\* field, and the empty string if the request has no such field
arg(field) == IF field.present THEN field.value ELSE <<>>

\* the parameter loop of handleWifiSave over the slots 1..upto, the request
\* having field for every parameter id
SaveParameters(field, upto) ==
  [i \in 1..Len(_params) |->
     IF i <= upto
     THEN [_params[i] EXCEPT !._value = toCharArray(arg(field), @, _params[i]._length)]
     ELSE _params[i]]

(* ---------------------------- save handler ----------------------------- *)
\* handleWifiSave(request) for the request with the arguments s and p of req
\* and field for every parameter id.  With _paramsCount beyond the array the
\* loop reads slots outside it, which is undefined: it finds what
\* addParameter wrote there and goes on, or the program stops there.
handleWifiSaveWith(req, field) ==
  /\ routes
  /\ pc \notin {"fault", "restarted"}
  /\ submissions < MaxSubmissions
  /\ submissions' = submissions + 1
  /\ time_now' = now
  /\ ap_on' = FALSE
  /\ border' = SaveBorder
  /\ _ssid' = req.s /\ _pass' = req.p
  /\ IF _paramsCount > WIFI_MANAGER_MAX_PARAMS
     THEN \/ _params' = SaveParameters(field, _paramsCount) /\ connect' = TRUE /\ pc' = pc
          \/ /\ _params' = SaveParameters(field, WIFI_MANAGER_MAX_PARAMS)
             /\ pc' = "fault"
             /\ UNCHANGED connect
     ELSE _params' = SaveParameters(field, _paramsCount) /\ connect' = TRUE /\ pc' = pc
  /\ UNCHANGED <<now, elapses, sketch, _modeless, scannow, foundOnScan, _configPortalTimeout, _connectTimeout, _configPortalStart, _shouldBreakAfterConfig, _tryConnectDuringConfigPortal, _savecallback, shouldscan, try_scan, wifiSSIDs, wifiSSIDCount, connectedDuringConfigPortal, argSsid, argPass, connRes, caller, radioCalls, wlStatus, staPending, connCause, wifiMode, storedSSID, scanState, radioScan, routes, dnsRunning, saveCalls, apCalls, attempts, exitReason, result, scanCall, page, _minimumQuality, qualityCall, _apPassword, softAP, _paramsCount, overrun, staRoutes, restartedBy, autoConnectCall, waitCall, scanRequest, refresh, rendered, portalRuns, response, save, origin>>

\* the parameter fields of the requests that arrive: the handler reads the
\* field only for a registered parameter
RequestFields ==
  IF _paramsCount = 0 THEN {[present |-> FALSE, value |-> <<>>]} ELSE ParamFields

\* handleWifiSave(request): the handler of /api/v2/wifi/save
handleWifiSave ==
  \E req \in Submissions, field \in RequestFields : handleWifiSaveWith(req, field)

(* ------------------------- restarting handlers ------------------------- *)
\* the build registers the stand-alone routes (#if CONFIG_STAND_ALONE)
CONFIG_STAND_ALONE == TRUE

\* staModeSetup(): setupApiCalls() registers the routes of the station mode
staModeSetup ==
  /\ pc = "idle"
  /\ ~staRoutes
  /\ staRoutes' = TRUE
  /\ UNCHANGED <<now, elapses, pc, sketch, submissions, _modeless, connect, scannow, time_now, foundOnScan, ap_on, border, _ssid, _pass, _configPortalTimeout, _connectTimeout, _configPortalStart, _shouldBreakAfterConfig, _tryConnectDuringConfigPortal, _savecallback, shouldscan, try_scan, wifiSSIDs, wifiSSIDCount, connectedDuringConfigPortal, argSsid, argPass, connRes, caller, radioCalls, wlStatus, staPending, connCause, wifiMode, storedSSID, scanState, radioScan, routes, dnsRunning, saveCalls, apCalls, attempts, exitReason, result, scanCall, page, _minimumQuality, qualityCall, _apPassword, softAP, _params, _paramsCount, overrun, restartedBy, autoConnectCall, waitCall, scanRequest, refresh, rendered, portalRuns, response, save, origin>>

\* ESP.restart() called by the handler by, after the delay d
Restart(by, d) ==
  /\ now' = now + d
  /\ restartedBy' = by
  /\ pc' = "restarted"

\* handleReset(request), the handler of /api/v2/wifi/reset of the portal
handleReset ==
  /\ routes
  /\ pc \notin {"fault", "restarted"}
  /\ Restart("handleReset", ResetDelay)
  /\ UNCHANGED <<elapses, sketch, submissions, _modeless, connect, scannow, time_now, foundOnScan, ap_on, border, _ssid, _pass, _configPortalTimeout, _connectTimeout, _configPortalStart, _shouldBreakAfterConfig, _tryConnectDuringConfigPortal, _savecallback, shouldscan, try_scan, wifiSSIDs, wifiSSIDCount, connectedDuringConfigPortal, argSsid, argPass, connRes, caller, radioCalls, wlStatus, staPending, connCause, wifiMode, storedSSID, scanState, radioScan, routes, dnsRunning, saveCalls, apCalls, attempts, exitReason, result, scanCall, page, _minimumQuality, qualityCall, _apPassword, softAP, _params, _paramsCount, overrun, staRoutes, autoConnectCall, waitCall, scanRequest, refresh, rendered, portalRuns, response, save, origin>>

\* handleResetSTA(request), the handler of /api/v2/wifi/reset of the station
\* mode
handleResetSTA ==
  /\ staRoutes
  /\ pc \notin {"fault", "restarted"}
  /\ Restart("handleResetSTA", ResetDelay)
  /\ UNCHANGED <<elapses, sketch, submissions, _modeless, connect, scannow, time_now, foundOnScan, ap_on, border, _ssid, _pass, _configPortalTimeout, _connectTimeout, _configPortalStart, _shouldBreakAfterConfig, _tryConnectDuringConfigPortal, _savecallback, shouldscan, try_scan, wifiSSIDs, wifiSSIDCount, connectedDuringConfigPortal, argSsid, argPass, connRes, caller, radioCalls, wlStatus, staPending, connCause, wifiMode, storedSSID, scanState, radioScan, routes, dnsRunning, saveCalls, apCalls, attempts, exitReason, result, scanCall, page, _minimumQuality, qualityCall, _apPassword, softAP, _params, _paramsCount, overrun, staRoutes, autoConnectCall, waitCall, scanRequest, refresh, rendered, portalRuns, response, save, origin>>

\* wifi_stand_alone_request(request): the stored credentials are erased
\* (WiFi.disconnect(true, false)) and the device restarts
wifi_stand_alone_request ==
  /\ CONFIG_STAND_ALONE /\ routes
  /\ pc \notin {"fault", "restarted"}
  /\ wifiMode' = "WIFI_AP_STA"
  /\ wlStatus' = AfterDisconnect
  /\ staPending' = "none" /\ connCause' = "none"
  /\ storedSSID' = ""
  /\ Restart("wifi_stand_alone_request", StandAloneDelay)
  /\ UNCHANGED <<elapses, sketch, submissions, _modeless, connect, scannow, time_now, foundOnScan, ap_on, border, _ssid, _pass, _configPortalTimeout, _connectTimeout, _configPortalStart, _shouldBreakAfterConfig, _tryConnectDuringConfigPortal, _savecallback, shouldscan, try_scan, wifiSSIDs, wifiSSIDCount, connectedDuringConfigPortal, argSsid, argPass, connRes, caller, radioCalls, scanState, radioScan, routes, dnsRunning, saveCalls, apCalls, attempts, exitReason, result, scanCall, page, _minimumQuality, qualityCall, _apPassword, softAP, _params, _paramsCount, overrun, staRoutes, autoConnectCall, waitCall, scanRequest, refresh, rendered, portalRuns, response, save, origin>>

\* wifi_stand_alone_deactivate_request(request)
wifi_stand_alone_deactivate_request ==
  /\ CONFIG_STAND_ALONE /\ routes
  /\ pc \notin {"fault", "restarted"}
  /\ Restart("wifi_stand_alone_deactivate_request", StandAloneDelay)
  /\ UNCHANGED <<elapses, sketch, submissions, _modeless, connect, scannow, time_now, foundOnScan, ap_on, border, _ssid, _pass, _configPortalTimeout, _connectTimeout, _configPortalStart, _shouldBreakAfterConfig, _tryConnectDuringConfigPortal, _savecallback, shouldscan, try_scan, wifiSSIDs, wifiSSIDCount, connectedDuringConfigPortal, argSsid, argPass, connRes, caller, radioCalls, wlStatus, staPending, connCause, wifiMode, storedSSID, scanState, radioScan, routes, dnsRunning, saveCalls, apCalls, attempts, exitReason, result, scanCall, page, _minimumQuality, qualityCall, _apPassword, softAP, _params, _paramsCount, overrun, staRoutes, autoConnectCall, waitCall, scanRequest, refresh, rendered, portalRuns, response, save, origin>>

\* the begin(ssid, pass) of handleWifiSaveSTA
SaveStaBegin(req) ==
  IF req.s # ""
  THEN staPending' = "explicit" /\ storedSSID' = req.s
  ELSE UNCHANGED <<staPending, storedSSID>>

\* handleWifiSaveSTA restarting whatever the status was
handleWifiSaveSTAAlwaysRestarts ==
  /\ staRoutes
  /\ pc \notin {"fault", "restarted"}
  /\ submissions < MaxSubmissions
  /\ submissions' = submissions + 1
  /\ \E req \in Submissions : SaveStaBegin(req)
  /\ Restart("handleWifiSaveSTA", SaveStaDelay + RestartDelay)
  /\ UNCHANGED <<elapses, sketch, _modeless, connect, scannow, time_now, foundOnScan, ap_on, border, _ssid, _pass, _configPortalTimeout, _connectTimeout, _configPortalStart, _shouldBreakAfterConfig, _tryConnectDuringConfigPortal, _savecallback, shouldscan, try_scan, wifiSSIDs, wifiSSIDCount, connectedDuringConfigPortal, argSsid, argPass, connRes, caller, radioCalls, wlStatus, connCause, wifiMode, scanState, radioScan, routes, dnsRunning, saveCalls, apCalls, attempts, exitReason, result, scanCall, page, _minimumQuality, qualityCall, _apPassword, softAP, _params, _paramsCount, overrun, staRoutes, autoConnectCall, waitCall, scanRequest, refresh, rendered, portalRuns, response, save, origin>>

\* handleWifiSaveSTA(request), the handler of /api/v2/wifi/save of the
\* station mode: after delay(2000) it calls WiFi.begin with the submitted
\* credentials and, if the station was connected, restarts the device
handleWifiSaveSTA ==
  /\ staRoutes
  /\ pc \notin {"fault", "restarted"}
  /\ submissions < MaxSubmissions
  /\ submissions' = submissions + 1
  /\ \E req \in Submissions : SaveStaBegin(req)
  /\ IF wlStatus = "WL_CONNECTED"
     THEN Restart("handleWifiSaveSTA", SaveStaDelay + RestartDelay)
     ELSE now' = now + SaveStaDelay /\ UNCHANGED <<restartedBy, pc>>
  /\ UNCHANGED <<elapses, sketch, _modeless, connect, scannow, time_now, foundOnScan, ap_on, border, _ssid, _pass, _configPortalTimeout, _connectTimeout, _configPortalStart, _shouldBreakAfterConfig, _tryConnectDuringConfigPortal, _savecallback, shouldscan, try_scan, wifiSSIDs, wifiSSIDCount, connectedDuringConfigPortal, argSsid, argPass, connRes, caller, radioCalls, wlStatus, connCause, wifiMode, scanState, radioScan, routes, dnsRunning, saveCalls, apCalls, attempts, exitReason, result, scanCall, page, _minimumQuality, qualityCall, _apPassword, softAP, _params, _paramsCount, overrun, staRoutes, autoConnectCall, waitCall, scanRequest, refresh, rendered, portalRuns, response, save, origin>>

(* --------------------------- captive portal ---------------------------- *)
\* the code of the character c
Ord(c) == CHOOSE i \in 1..Len(Alphabet) : Alphabet[i] = c

\* NotIpChar taking the character before '0' for a digit
NotIpCharFromSlash(c) ==
  c # "." /\ (Ord(c) < Ord("/") \/ Ord(c) > Ord("9"))

\* if (c != '.' && (c < '0' || c > '9')) return false;
NotIpChar(c) ==
  c # "." /\ (Ord(c) < Ord("0") \/ Ord(c) > Ord("9"))

RECURSIVE isIpFrom(_, _)
\* the loop of isIp from the character i on
isIpFrom(str, i) ==
  IF i > Len(str) THEN TRUE
  ELSE IF NotIpChar(str[i]) THEN FALSE
  ELSE isIpFrom(str, i + 1)

\* isIp(str)
isIp(str) == isIpFrom(str, 1)

\* captivePortal(request): TRUE, with a 302 sent, if the Host is no address
captivePortal(host) == ~isIp(host)

\* handleRoot(request), the handler of / and /fwlink: the redirection of
\* captivePortal, or the options page
handleRoot ==
  /\ routes
  /\ \E host \in Hosts :
       response' = IF captivePortal(host)
                   THEN [sent |-> TRUE, host |-> host, code |-> 302, captive |-> TRUE]
                   ELSE [sent |-> TRUE, host |-> host, code |-> 200, captive |-> FALSE]
  /\ UNCHANGED <<now, elapses, pc, sketch, submissions, _modeless, connect, scannow, time_now, foundOnScan, ap_on, border, _ssid, _pass, _configPortalTimeout, _connectTimeout, _configPortalStart, _shouldBreakAfterConfig, _tryConnectDuringConfigPortal, _savecallback, shouldscan, try_scan, wifiSSIDs, wifiSSIDCount, connectedDuringConfigPortal, argSsid, argPass, connRes, caller, radioCalls, wlStatus, staPending, connCause, wifiMode, storedSSID, scanState, radioScan, routes, dnsRunning, saveCalls, apCalls, attempts, exitReason, result, scanCall, page, _minimumQuality, qualityCall, _apPassword, softAP, _params, _paramsCount, overrun, staRoutes, restartedBy, autoConnectCall, waitCall, scanRequest, refresh, rendered, portalRuns, save, origin>>

\* handleNotFound(request): the redirection of captivePortal, or its own
handleNotFound ==
  /\ routes
  /\ \E host \in Hosts :
       response' = IF captivePortal(host)
                   THEN [sent |-> TRUE, host |-> host, code |-> 302, captive |-> TRUE]
                   ELSE [sent |-> TRUE, host |-> host, code |-> 302, captive |-> FALSE]
  /\ UNCHANGED <<now, elapses, pc, sketch, submissions, _modeless, connect, scannow, time_now, foundOnScan, ap_on, border, _ssid, _pass, _configPortalTimeout, _connectTimeout, _configPortalStart, _shouldBreakAfterConfig, _tryConnectDuringConfigPortal, _savecallback, shouldscan, try_scan, wifiSSIDs, wifiSSIDCount, connectedDuringConfigPortal, argSsid, argPass, connRes, caller, radioCalls, wlStatus, staPending, connCause, wifiMode, storedSSID, scanState, radioScan, routes, dnsRunning, saveCalls, apCalls, attempts, exitReason, result, scanCall, page, _minimumQuality, qualityCall, _apPassword, softAP, _params, _paramsCount, overrun, staRoutes, restartedBy, autoConnectCall, waitCall, scanRequest, refresh, rendered, portalRuns, save, origin>>

(* --------------------------- specification ----------------------------- *)
Next ==
  \/ StartConfigPortal
  \/ StartConfigPortalModeless
  \/ ModelessSetup
  \/ CriticalLoopScan
  \/ CriticalLoopConnect
  \/ CriticalLoopAfter
  \/ ScanFinishes
  \/ LoopHead
  \/ TickAp
  \/ TickScan
  \/ TickStatus
  \/ TickConnect
  \/ TickDoConnect
  \/ TickAfter
  \/ PortalExit
  \/ setConfigPortalTimeout
  \/ setConnectTimeout
  \/ setTryConnectDuringConfigPortal
  \/ setBreakAfterConfig
  \/ setSaveConfigCallback
  \/ WaitDriver
  \/ WaitPoll
  \/ RadioResolve
  \/ Elapse
  \/ handleWifiSave

Spec == Init /\ [][Next]_vars

\* one manager as constructed, owned by a sketch that uses the blocking
\* portal, with an idle station and no stored network
InitOne ==
  /\ Init
  /\ sketch = "blocking" /\ ~connect
  /\ wlStatus = "WL_IDLE_STATUS" /\ storedSSID = ""

\* the scan cache and its listing: refreshes with every result of the driver
NextScan ==
  \/ setMinimumSignalQuality
  \/ StartConfigPortal
  \/ copySSIDInfoCall
  \/ handleWifi

SpecScan == InitOne /\ [][NextScan]_vars

\* the passwords a sketch hands to a portal start, by their length: none,
\* empty, and the lengths around the two limits
ApPasswords == {NullPassword, 0, MinPasswordLength - 1, MinPasswordLength,
                MaxPasswordLength, MaxPasswordLength + 1}

\* startConfigPortal(apName, apPassword) with any password
StartConfigPortalAny == \E apPassword \in ApPasswords : StartConfigPortalWith(apPassword)

\* startConfigPortalModeless(apName, apPassword) with any password
StartConfigPortalModelessAny ==
  \E apPassword \in ApPasswords : StartConfigPortalModelessWith(apPassword)

\* both portal starts with every password, up to the end of their setup
NextAp ==
  \/ StartConfigPortalAny
  \/ StartConfigPortalModelessAny
  \/ RadioResolve
  \/ WaitDriver
  \/ ModelessSetup

SpecAp == Init /\ [][NextAp]_vars

\* the parameter registry: a sketch registers parameters, starts the portal,
\* and save requests arrive
NextParams ==
  \/ addParameter
  \/ StartConfigPortal
  \/ handleWifiSave

SpecParams == InitOne /\ [][NextParams]_vars

\* the captive portal check: requests with every Host to the two handlers
\* that call it
NextCaptive ==
  \/ StartConfigPortal
  \/ handleRoot
  \/ handleNotFound

SpecCaptive == InitOne /\ [][NextCaptive]_vars

\* the handlers that restart the device, beside both portals and their
\* ticks as the manager is constructed
NextRestart ==
  \/ staModeSetup
  \/ handleReset
  \/ handleResetSTA
  \/ wifi_stand_alone_request
  \/ wifi_stand_alone_deactivate_request
  \/ handleWifiSaveSTA
  \/ handleWifiSave
  \/ StartConfigPortal
  \/ StartConfigPortalModeless
  \/ ModelessSetup
  \/ CriticalLoopScan
  \/ CriticalLoopConnect
  \/ CriticalLoopAfter
  \/ ScanFinishes
  \/ LoopHead
  \/ TickAp
  \/ TickScan
  \/ TickStatus
  \/ TickConnect
  \/ TickDoConnect
  \/ TickAfter
  \/ PortalExit
  \/ WaitDriver
  \/ RadioResolve
  \/ Elapse

SpecRestart == Init /\ [][NextRestart]_vars

\* a manager as constructed, owned by a sketch that uses the blocking
\* portal
InitBlocking == Init /\ sketch = "blocking" /\ ~connect

\* autoConnect with every number of tries and both delays, the driver
\* finishing its begin() at any time
NextAuto ==
  \/ autoConnect
  \/ AutoConnectTry
  \/ AutoConnectAfter
  \/ AutoConnectDelay
  \/ WaitDriver
  \/ RadioResolve

\* the delay loop is sequential code: it goes on when delay() returns
SpecAuto == InitBlocking /\ [][NextAuto]_vars /\ WF_vars(AutoConnectDelay)

\* values of millis() at which the sketch calls autoConnect: shortly before
\* millis() wraps
Uptimes == {ClockModulus - 1 - MsPerSecond, ClockModulus - MsPerSecond \div 2}

\* the sketch has run for some time when it calls the manager
RunsFor ==
  /\ pc = "idle"
  /\ now = 0
  /\ now' \in Uptimes
  /\ UNCHANGED <<elapses, pc, sketch, submissions, _modeless, connect, scannow, time_now, foundOnScan, ap_on, border, _ssid, _pass, _configPortalTimeout, _connectTimeout, _configPortalStart, _shouldBreakAfterConfig, _tryConnectDuringConfigPortal, _savecallback, shouldscan, try_scan, wifiSSIDs, wifiSSIDCount, connectedDuringConfigPortal, argSsid, argPass, connRes, caller, radioCalls, wlStatus, staPending, connCause, wifiMode, storedSSID, scanState, radioScan, routes, dnsRunning, saveCalls, apCalls, attempts, exitReason, result, scanCall, page, _minimumQuality, qualityCall, _apPassword, softAP, _params, _paramsCount, overrun, staRoutes, restartedBy, autoConnectCall, waitCall, scanRequest, refresh, rendered, portalRuns, response, save, origin>>

\* autoConnect at any uptime with either connect timeout, the driver
\* finishing its begin() at any time
NextWait ==
  \/ RunsFor
  \/ setConnectTimeout
  \/ autoConnect
  \/ AutoConnectTry
  \/ AutoConnectAfter
  \/ AutoConnectDelay
  \/ WaitDriver
  \/ WaitEnter
  \/ WaitIteration
  \/ WaitReturn
  \/ RadioResolve

\* the polling loop is sequential code: it goes on when delay(100) returns
SpecWait == InitBlocking /\ [][NextWait]_vars /\ WF_vars(WaitIteration)

\* the main task yields for a whole scan interval of the blocking portal
ElapseInterval ==
  /\ pc = "loop"
  /\ elapses < MaxElapse
  /\ now' = now + PortalScanInterval
  /\ elapses' = elapses + 1
  /\ UNCHANGED <<pc, sketch, submissions, _modeless, connect, scannow, time_now, foundOnScan, ap_on, border, _ssid, _pass, _configPortalTimeout, _connectTimeout, _configPortalStart, _shouldBreakAfterConfig, _tryConnectDuringConfigPortal, _savecallback, shouldscan, try_scan, wifiSSIDs, wifiSSIDCount, connectedDuringConfigPortal, argSsid, argPass, connRes, caller, radioCalls, wlStatus, staPending, connCause, wifiMode, storedSSID, scanState, radioScan, routes, dnsRunning, saveCalls, apCalls, attempts, exitReason, result, scanCall, page, _minimumQuality, qualityCall, _apPassword, softAP, _params, _paramsCount, overrun, staRoutes, restartedBy, autoConnectCall, waitCall, scanRequest, refresh, rendered, portalRuns, response, save, origin>>

\* the blocking portal over whole scan intervals and over more than one
\* call of startConfigPortal
NextRescan ==
  \/ setConfigPortalTimeout
  \/ setTryConnectDuringConfigPortal
  \/ StartConfigPortal
  \/ StartConfigPortalAgain
  \/ LoopHead
  \/ TickAp
  \/ TickScan
  \/ TickStatus
  \/ TickConnect
  \/ PortalExit
  \/ RadioResolve
  \/ ElapseInterval

SpecRescan == InitBlocking /\ [][NextRescan]_vars

\* the refresh of the batch in the task of the sketch and the rendering in
\* the task of the web server, interleaved between statements
NextSwap ==
  \/ StartConfigPortal
  \/ RefreshBegin
  \/ RefreshAllocate
  \/ RefreshCount
  \/ RefreshPopulate
  \/ RefreshSort
  \/ RefreshDedup
  \/ RenderReads

SpecSwap == InitOne /\ [][NextSwap]_vars

\* one manager as constructed, with any value in wifiSSIDCount
ConstructedOne ==
  /\ Constructed
  /\ sketch = "blocking" /\ ~connect
  /\ wlStatus = "WL_IDLE_STATUS" /\ storedSSID = ""

\* the stored count and batch from construction on: refreshes with every
\* result of the driver, and the reads of the rendering
NextCount ==
  \/ StartConfigPortal
  \/ copySSIDInfoCall
  \/ RenderReads

SpecCount == ConstructedOne /\ [][NextCount]_vars

\* getRSSIasQuality applied to every input
NextQuality == getRSSIasQualityCall

SpecQuality == Init /\ [][NextQuality]_vars

(* ------------------------------ properties ----------------------------- *)
\* what a call of the save callback adds to the count of its invocations
Notified == IF _savecallback THEN 1 ELSE 0

\* C1: with a non-zero portal timeout the blocking portal ends at the first
\* loop test made once the time since the portal start has reached the
\* timeout, and it then returns false when the station is not connected.
C1_TimeoutEndsPortal ==
  [][ /\ (/\ pc = "loop" /\ pc' # pc
          /\ _configPortalTimeout > 0
          /\ now - _configPortalStart >= _configPortalTimeout)
         => (pc' = "exit" /\ exitReason' = "TimedOut")
      /\ (/\ pc = "exit" /\ pc' # pc
          /\ exitReason = "TimedOut"
          /\ wlStatus # "WL_CONNECTED")
         => (pc' = "done" /\ result' = FALSE) ]_vars

\* C1 happens: a portal with a timeout has timed out and returned false
C1_Witness ==
  /\ pc = "done" /\ exitReason = "TimedOut" /\ ~result
  /\ _configPortalTimeout > 0
  /\ now - _configPortalStart >= _configPortalTimeout

\* C2: with a portal timeout of zero the blocking portal never ends because
\* of elapsed time alone.
C2_ZeroTimeoutNeverExpires ==
  _configPortalTimeout = 0 => exitReason # "TimedOut"

\* C2 happens: an unbounded portal still ticks after every modelled lapse
C2_Witness ==
  /\ sketch = "blocking" /\ _configPortalTimeout = 0
  /\ pc = "tick_ap" /\ elapses >= 2

\* C3: when the blocking portal has ended in Connected and returned true
\* through credentials a save request submitted, the save callback was
\* invoked exactly once.
C3_SaveCallbackOncePerApplication ==
  (/\ pc = "done" /\ result
   /\ exitReason = "Connected"
   /\ connCause = "explicit"
   /\ _savecallback)
  => saveCalls = 1

C5_BreakAfterConfigEndsPortal ==
  [][ (/\ pc = "tick_after" /\ pc' # pc
       /\ _shouldBreakAfterConfig)
      => (/\ pc' = "exit"
          /\ exitReason' \in {"Connected", "BreakAfterConfig"}
          /\ saveCalls' = saveCalls + Notified) ]_vars

\* C5 happens: a portal ended by break-after-config without a connection
C5_Witness ==
  /\ pc = "done" /\ exitReason = "BreakAfterConfig"
  /\ ~result /\ saveCalls = 1 /\ submissions = 1

\* C6: once the blocking portal has returned, its routes are cleared and
\* the DNS responder is stopped, whatever ended it.
C6_ExitClearsRoutesAndDns ==
  pc = "done" => (~routes /\ ~dnsRunning)

\* C6 happens: a portal that ran its servers has returned connected
C6_Witness ==
  /\ pc = "done" /\ exitReason = "Connected" /\ result
  /\ ~routes /\ ~dnsRunning

\* C7: when the status check of a tick finds the station connected it ends
\* the portal, and it invokes the save callback unless the connection came
\* from the reconnect started by the scan section of the portal.
C7_CallbackUnlessReconnect ==
  [][ (/\ pc = "tick_status" /\ pc' # pc
       /\ wlStatus = "WL_CONNECTED"
       /\ _savecallback)
      => (/\ pc' = "exit"
          /\ (saveCalls' = saveCalls + 1) <=> (connCause # "reconnect")) ]_vars

C10_ModelessTickNeverWaits ==
  ~(pc = "cw_wait" /\ caller = "modelessTick")

\* C11: once the attempt of a modeless tick has ended connected, later ticks
\* start no scan, refresh no batch and make no connection attempt.
C11_ModelessConnectedIsTerminal ==
  [][ (sketch = "modeless" /\ exitReason = "Connected")
      => UNCHANGED <<scannow, try_scan, batchVars, attempts>> ]_vars

\* C12: a refresh of the scan cache with a negative count leaves the stored
\* batch and its count unchanged.
C12_NegativeCountKeepsBatch ==
  [][ (scanCall'.called /\ scanCall'.n < 0)
      => UNCHANGED <<wifiSSIDs, wifiSSIDCount>> ]_vars

\* C12 happens: after a failed refresh the previous batch is the one listed
C12_Witness ==
  /\ scanCall.called /\ scanCall.n = WIFI_SCAN_FAILED
  /\ wifiSSIDCount = 2 /\ Len(wifiSSIDs) = 2
  /\ radioScan = <<>>
  /\ page.sent /\ page.found

\* C13: after a refresh with a count n >= 0 the stored batch has exactly n
\* observations; after a scan that found no network it is empty.
C13_NonNegativeCountReplacesBatch ==
  (scanCall.called /\ scanCall.n >= 0)
  => (wifiSSIDCount = scanCall.n /\ Len(wifiSSIDs) = scanCall.n)

\* the entries of a batch or of raw results that are the observation o
Occurrences(seq, o) ==
  Cardinality({i \in 1..Len(seq) : seq[i].SSID = o.SSID /\ seq[i].RSSI = o.RSSI})

\* C14: after a refresh with at least one observation the stored batch holds
\* the scanned observations, each as often as scanned, in an order of
\* non-increasing signal strength.
C14_BatchSortedPermutation ==
  (scanCall.called /\ scanCall.n > 0)
  => /\ Len(wifiSSIDs) = Len(radioScan)
     /\ \A o \in Observations : Occurrences(wifiSSIDs, o) = Occurrences(radioScan, o)
     /\ \A i, j \in 1..Len(wifiSSIDs) : i < j => wifiSSIDs[i].RSSI >= wifiSSIDs[j].RSSI

\* C14 happens: a scan reported three observations weakest first
C14_Witness ==
  /\ scanCall.called /\ scanCall.n = 3
  /\ radioScan[1].RSSI < radioScan[2].RSSI
  /\ radioScan[2].RSSI < radioScan[3].RSSI
  /\ wifiSSIDs[1].RSSI = radioScan[3].RSSI

\* C15: with duplicate removal enabled an entry of the stored batch is
\* flagged duplicate exactly if an earlier entry has its SSID, and the
\* listing names no SSID twice.
C15_OneEntryPerSsid ==
  /\ \A i \in 1..Len(wifiSSIDs) :
       wifiSSIDs[i].duplicate <=> (\E j \in 1..(i - 1) : wifiSSIDs[j].SSID = wifiSSIDs[i].SSID)
  /\ \A i, j \in 1..Len(page.items) :
       i # j => page.items[i].SSID # page.items[j].SSID

\* C15 happens: a batch with a repeated SSID has been listed
C15_Witness ==
  /\ _removeDuplicateAPs
  /\ scanCall.called /\ scanCall.n = 3
  /\ wifiSSIDs[1].SSID = wifiSSIDs[3].SSID
  /\ wifiSSIDs[2].SSID # wifiSSIDs[1].SSID
  /\ wifiSSIDs[3].duplicate /\ ~wifiSSIDs[2].duplicate
  /\ page.found /\ Len(page.items) = 2

RECURSIVE ListedFrom(_, _, _)
\* the entries of batch from i on that are not duplicates and whose quality
\* is at least q, in the order of the batch
ListedFrom(batch, q, i) ==
  IF i > Len(batch) THEN <<>>
  ELSE (IF ~batch[i].duplicate /\ getRSSIasQuality(batch[i].RSSI) >= q
        THEN <<[SSID |-> batch[i].SSID, quality |-> getRSSIasQuality(batch[i].RSSI)]>>
        ELSE <<>>) \o ListedFrom(batch, q, i + 1)

\* C16: a listing rendered with minimum quality q holds, in the order of the
\* batch, exactly the non-duplicate entries whose quality is at least q.
C16_ListedIffQualityAtLeast ==
  [][ page' # page
      => page'.items = ListedFrom(wifiSSIDs', _minimumQuality', 1) ]_vars

\* C17: getRSSIasQuality returns 0 up to -100, 100 from -50 on and
\* 2 * (rssi + 100) in between, stays within 0..100, and is non-decreasing.
C17_QualityClampedAndMonotone ==
  qualityCall.called
  => /\ qualityCall.quality \in 0..100
     /\ qualityCall.RSSI <= -100 => qualityCall.quality = 0
     /\ qualityCall.RSSI >= -50 => qualityCall.quality = 100
     /\ (qualityCall.RSSI > -100 /\ qualityCall.RSSI < -50)
        => qualityCall.quality = 2 * (qualityCall.RSSI + 100)
     /\ \A r \in RssiInputs :
          r <= qualityCall.RSSI => getRSSIasQuality(r) <= qualityCall.quality

\* C17 happens: the quality of -75 has been computed as 50
C17_Witness ==
  qualityCall.called /\ qualityCall.RSSI = -75 /\ qualityCall.quality = 50

\* C18: a portal whose setup has run has brought up the soft AP; the AP got
\* the password handed to the portal start if that has 8 to 63 characters,
\* and none if it is shorter or longer.
C18_ApPasswordOnlyIfLengthValid ==
  /\ routes => softAP.called
  /\ softAP.called
     => softAP.password =
          (IF softAP.apPassword >= MinPasswordLength /\ softAP.apPassword <= MaxPasswordLength
           THEN softAP.apPassword ELSE NullPassword)

\* C18 happens: a password of 64 characters was handed to the modeless start,
\* the AP is open and the portal is up
C18_Witness ==
  /\ pc = "ml_idle" /\ routes
  /\ softAP.called /\ softAP.apPassword = MaxPasswordLength + 1
  /\ softAP.password = NullPassword /\ _apPassword = NullPassword

\* C19: a save request leaves in every registered parameter the first L
\* characters of the submitted value, L being the declared length of the
\* parameter, and the whole value if it is shorter.
C19_SaveStoresFirstLBytes ==
  [][ \A req \in Submissions, value \in ParamValues :
        (handleWifiSaveWith(req, [present |-> TRUE, value |-> value]) /\ ~overrun)
        => \A i \in 1..Len(_params) :
             _params'[i]._value = SubSeq(value, 1, Shorter(_params[i]._length, Len(value))) ]_vars

\* C20: the registry never counts more parameters than _params has slots,
\* and no slot outside _params is written.
C20_RegistryWithinCapacity ==
  /\ _paramsCount <= WIFI_MANAGER_MAX_PARAMS
  /\ Len(_params) <= WIFI_MANAGER_MAX_PARAMS
  /\ ~overrun

\* C21: a save request without a field for the id of a parameter leaves the
\* value of the parameter as it was.
C21_SaveWithoutFieldKeepsValue ==
  [][ \A req \in Submissions :
        (handleWifiSaveWith(req, [present |-> FALSE, value |-> <<>>]) /\ ~overrun)
        => \A i \in 1..Len(_params) : _params'[i]._value = _params[i]._value ]_vars

\* C22: captivePortal answers a request with the redirection 302 exactly if
\* the Host of the request has a character that is neither a digit nor a dot.
C22_RedirectIffHostNotIpLiteral ==
  response.sent
  => /\ response.captive <=>
          (\E i \in 1..Len(response.host) :
             response.host[i] \notin {".", "0", "1", "2", "3", "4", "5", "6", "7", "8", "9"})
     /\ response.captive => response.code = 302

\* C22 happens: a request for the Host 4.3.2.1x has been redirected
C22_Witness ==
  /\ response.sent /\ response.captive /\ response.code = 302
  /\ response.host = <<"4", ".", "3", ".", "2", ".", "1", "x">>

\* a tick of either portal starts a connection attempt in this step
TickAttemptStarts ==
  attempts' > attempts /\ caller' \in {"portal", "modelessTick"}

\* C23: a save request with an empty SSID does not set the request flag, and
\* no tick starts a connection attempt with an empty SSID.
C23_EmptySsidNeverTriggersAttempt ==
  [][ /\ (submissions' > submissions /\ _ssid' = "") => UNCHANGED connect
      /\ TickAttemptStarts => argSsid' # "" ]_vars

\* the connection attempts the ticks have started: all but the one of
\* startConfigPortalModeless
TickAttempts ==
  IF sketch = "modeless" /\ attempts > 0 THEN attempts - 1 ELSE attempts

\* C24 as stated: the step in which a tick starts its connection attempt
\* resets the stored SSID and passphrase.
C24_AttemptResetsCredentials ==
  [][ TickAttemptStarts => (_ssid' = "" /\ _pass' = "") ]_vars

\* C24 amended: a tick consumes the request flag, not the credentials: its
\* attempt is made with the SSID and passphrase of the latest save request,
\* which stay stored, and the ticks start at most one attempt per request.
C24_AttemptConsumesRequestOnly ==
  [][ /\ TickAttemptStarts
         => /\ argSsid' = _ssid /\ argPass' = _pass
            /\ UNCHANGED <<_ssid, _pass>>
            /\ submissions > 0
      /\ (pc = "tick_connect" /\ pc' = "tick_doconnect") => ~connect'
      /\ (pc = "ml_connect" /\ pc' = "cw_wait") => ~connect'
      /\ TickAttempts' <= submissions' ]_vars

\* C24 happens: the attempt for the one save request has started, and the
\* submitted credentials are still stored
C24_Witness ==
  /\ pc = "cw_wait" /\ caller = "portal"
  /\ submissions = 1 /\ ~connect
  /\ argSsid = "cafe" /\ _ssid = "cafe" /\ _pass = "pwC"

\* the device restarts in this step
RestartStep == restartedBy = "none" /\ restartedBy' # "none"

\* the handlers of the reset endpoint and of the stand-alone toggles
RebootEndpoints ==
  {"handleReset", "handleResetSTA", "wifi_stand_alone_request",
   "wifi_stand_alone_deactivate_request"}

\* C25 as stated: the device is restarted by the reset endpoint and the
\* stand-alone toggles only.
C25_OnlyRebootEndpointsRestart ==
  [][ RestartStep => restartedBy' \in RebootEndpoints ]_vars

\* C25 amended: the device is restarted by the reset endpoint, by the
\* stand-alone toggles, and by the save handler of the station mode when the
\* station is connected; the save handler of the portal and the ticks never
\* restart it.
C25_RestartOnlyByEndpointsOrConnectedStaSave ==
  [][ RestartStep
      => \/ restartedBy' \in RebootEndpoints
         \/ restartedBy' = "handleWifiSaveSTA" /\ wlStatus = "WL_CONNECTED" ]_vars

\* C25 happens: a save request of the station mode has restarted the device
C25_Witness ==
  /\ restartedBy = "handleWifiSaveSTA" /\ pc = "restarted"
  /\ staRoutes /\ staPending = "explicit"

\* C26: connectWifi chooses its calls to the station from ssid alone: a
\* disconnect that erases nothing, then begin(ssid, pass), for a non-empty
\* ssid; the same disconnect, then begin(), for an empty ssid and a
\* remembered network; begin() alone for an empty ssid and none remembered.
C26_RadioCallsBySsid ==
  pc = "cw_wait"
  => /\ radioCalls =
          (IF argSsid # ""
           THEN <<DisconnectCall, BeginWith(argSsid, argPass)>>
           ELSE IF storedSSID # ""
           THEN <<DisconnectCall, BeginStored>>
           ELSE <<BeginStored>>)
     /\ \A i \in 1..Len(radioCalls) :
          /\ ~radioCalls[i].eraseap
          /\ radioCalls[i].call = "disconnect" => i < Len(radioCalls)
     /\ (argSsid = "" /\ caller # "none") => ~radioCalls[Len(radioCalls)].explicit

\* C26 happens: a tick connects with an empty ssid while the driver
\* remembers a network
C26_Witness ==
  /\ pc = "cw_wait" /\ caller = "portal"
  /\ argSsid = "" /\ storedSSID = NvsNetwork
  /\ radioCalls = <<DisconnectCall, BeginStored>>

\* C27: autoConnect makes at most maxConnectRetries attempts, all with the
\* stored credentials; it returns true, the portal not started, when an
\* attempt ends connected or the station is seen connected in the delay
\* between two attempts; it starts the portal when maxConnectRetries attempts
\* have failed, and only then; the delay loop runs between two attempts only
\* and its remaining delay shrinks with every iteration, so it is left.
C27_AutoConnectRetriesThenPortal ==
  /\ [][ /\ attempts' <= autoConnectCall'.maxConnectRetries
         /\ attempts' > attempts => (argSsid' = "" /\ argPass' = "")
         /\ (autoConnectCall.returned = "none" /\ autoConnectCall'.returned = "true")
            => /\ \/ pc = "ac_after" /\ connRes = "WL_CONNECTED"
                  \/ pc = "ac_delay" /\ wlStatus = "WL_CONNECTED"
               /\ ~routes' /\ ~softAP'.called
         /\ (pc = "ac_after" /\ pc' # pc /\ connRes = "WL_CONNECTED")
            => autoConnectCall'.returned = "true"
         /\ (autoConnectCall.returned = "none" /\ autoConnectCall'.returned = "portal")
            => /\ attempts = autoConnectCall.maxConnectRetries
               /\ routes' /\ softAP'.called /\ pc' = "loop"
         /\ (pc = "ac_loop" /\ pc' # pc /\ attempts = autoConnectCall.maxConnectRetries)
            => autoConnectCall'.returned = "portal"
         /\ pc' = "ac_delay"
            => /\ attempts' >= 1 /\ attempts' < autoConnectCall'.maxConnectRetries
               /\ autoConnectCall'.restDelayMs >= 0
         /\ (AutoConnectDelay /\ pc' = "ac_delay")
            => autoConnectCall'.restDelayMs < autoConnectCall.restDelayMs ]_vars
  /\ (pc = "ac_delay" ~> pc # "ac_delay")

\* C27 happens: with three tries allowed, two attempts failed, the station
\* was not seen connected in the delays, and the third attempt connected
C27_Witness ==
  /\ pc = "ac_done" /\ autoConnectCall.returned = "true"
  /\ autoConnectCall.maxConnectRetries = 3 /\ autoConnectCall.tryNumber = 2
  /\ autoConnectCall.retryDelayMs > 0
  /\ attempts = 3 /\ ~routes

\* C28: waitForConnectResult with a connect timeout > 0 leaves its polling
\* loop: it stays in the loop while the status is neither connected nor
\* connect-failed and the timeout has not elapsed, leaves it only when one of
\* these has happened, and returns the status it read last; with timeout 0
\* it returns what the driver's own wait returns, polling nothing.
C28_WaitEndsAtStatusOrTimeout ==
  /\ [][ /\ (WaitIteration /\ pc' = "wf_return")
            => (PollEnds(wlStatus) \/ waitCall.waited > _connectTimeout)
         /\ (WaitIteration /\ pc' = "wf_poll")
            => (~PollEnds(wlStatus) /\ waitCall.waited <= _connectTimeout)
         /\ WaitIteration => waitCall'.status = wlStatus
         /\ WaitReturn
            => (connRes' = waitCall.status
                /\ (connRes' = "WL_CONNECTED" <=> waitCall.status = "WL_CONNECTED"))
         /\ (pc = "cw_wait" /\ pc' # pc /\ _connectTimeout = 0)
            => (connRes' = wlStatus /\ pc' # "wf_poll" /\ UNCHANGED now) ]_vars
  /\ (pc = "wf_poll" ~> pc = "wf_return")

\* C29: every WiFi.scanNetworks, of a tick of either portal, comes right
\* after a station disconnect, and no begin() of an earlier attempt is in
\* flight when it is called: the only begin() in flight after the tick's
\* scan section is the one the section makes after its scan.
C29_ScanPrecededByDisconnect ==
  [][ scanRequest'.count > scanRequest.count
      => (/\ scanRequest'.disconnected
          /\ staPending' \in {"none", "reconnect"}) ]_vars

\* C30: a tick of the blocking portal at which scannow is 0 (the first tick
\* of every call of startConfigPortal) or the scan interval has elapsed calls
\* WiFi.scanNetworks and then stamps scannow; also in a later call of
\* startConfigPortal and after a scan that found networks.
C30_DueTickScans ==
  [][ (pc = "tick_scan" /\ pc' # pc /\ ScanDue(PortalScanInterval))
      => (/\ scanRequest'.count = scanRequest.count + 1
          /\ scanRequest'.by = "startConfigPortal"
          /\ scannow' = now) ]_vars

\* C31: a networkListAsString that runs between two statements of a
\* copySSIDInfo reads an array that has not been deleted, a count equal to
\* the length of that array, and either the whole batch from before the
\* refresh or the whole sorted and deduplicated new one.
C31_RenderSeesWholeBatch ==
  rendered.sent
  => (/\ ~rendered.freed
      /\ rendered.count = Len(rendered.batch)
      /\ rendered.batch \in rendered.whole)

\* C39: in every state from construction on, wifiSSIDCount is the number
\* of entries of the stored batch (0 when there is none), so the loop of
\* networkListAsString reads no entry outside the batch.
C39_CountIsBatchLength ==
  /\ wifiSSIDCount = Len(wifiSSIDs)
  /\ rendered.sent => \A i \in 0..(rendered.count - 1) : i < Len(rendered.batch)

\* C32: after a refresh with at least one observation foundOnScan tells
\* whether that scan, the last one, holds an observation whose SSID is the
\* configured station SSID.
C32_FoundOnScanDescribesLastScan ==
  (scanCall.called /\ scanCall.n > 0)
  => (foundOnScan <=> \E i \in 1..Len(radioScan) : radioScan[i].SSID = NvsNetwork)

\* C33: the AP check of a tick of the blocking portal sets the radio to
\* AP-only mode and marks the AP active exactly when the AP is not marked
\* active and the time since time_now exceeds border, be the configured
\* network found on scan or not (both durations of the check are the field
\* border); with the AP marked active the check changes nothing; and only a
\* credential submission or a refresh that has not found the configured
\* network clears the mark.
C33_ApSwitchedWhenDueAndUnmarked ==
  [][ /\ (pc = "tick_ap" /\ pc' # pc)
         => /\ (wifiMode' = "WIFI_AP" /\ ap_on' /\ ~ap_on)
               <=> (/\ ~ap_on
                    /\ \/ (~foundOnScan /\ now - time_now > border)
                       \/ now - time_now > border)
            /\ ~(wifiMode' = "WIFI_AP" /\ ap_on' /\ ~ap_on)
               => UNCHANGED <<wifiMode, ap_on, wlStatus, staPending>>
      /\ (ap_on /\ ~ap_on')
         => \/ submissions' = submissions + 1
            \/ (pc = "tick_scan" /\ ~foundOnScan' /\ wifiSSIDCount' > 0) ]_vars

\* C33 happens: the configured network was found on scan, border has
\* elapsed, and the AP check of the tick has just switched the radio
C33_Witness ==
  /\ pc = "tick_scan" /\ ap_on /\ wifiMode = "WIFI_AP"
  /\ foundOnScan /\ now - time_now > border

\* C34 as stated: startConfigPortal returns true after every exit through
\* the status check or a connected attempt, and false after a
\* break-after-config exit, whose attempt has failed, and after a timeout
\* with the station not connected when the loop was left.
C34_ReturnsByExit ==
  [][ (pc = "exit" /\ pc' = "done")
      => /\ exitReason = "Connected" => result'
         /\ exitReason = "BreakAfterConfig" => ~result' ]_vars

\* C34, amended: startConfigPortal returns whether WiFi.status() is
\* WL_CONNECTED when it is read for the return, after the server was reset
\* and the DNS responder stopped; that is true after every exit through the
\* status check or a connected attempt; after a timeout or a
\* break-after-config exit it is true only if the driver has ended a begin()
\* connected, which it can do between the end of the loop and the return.
C34_ReturnsStatusAtReturn ==
  [][ (pc = "exit" /\ pc' = "done")
      => /\ result' = (wlStatus = "WL_CONNECTED")
         /\ exitReason = "Connected" => result'
         /\ (exitReason \in {"TimedOut", "BreakAfterConfig"} /\ result')
            => connCause # "none" ]_vars

\* C34 happens: the attempt of a submission failed, the loop was left by
\* break-after-config, the begin() of the attempt ended connected before the
\* return, and startConfigPortal returned true
C34_Witness ==
  /\ pc = "done" /\ exitReason = "BreakAfterConfig" /\ result
  /\ attempts = 1 /\ connCause = "explicit"

\* C35: at the status check of a blocking-portal tick with the radio
\* connected and the save-requested flag set, the tick leaves the loop with
\* Connected, the flag stays set, no connection attempt is made then or
\* before startConfigPortal returns, and the save callback is not invoked
\* when the parallel reconnect had been started.
C35_StatusCheckBeforeRequest ==
  [][ /\ (pc = "tick_status" /\ pc' # pc /\ wlStatus = "WL_CONNECTED" /\ connect)
         => /\ pc' = "exit" /\ exitReason' = "Connected"
            /\ connect' /\ attempts' = attempts
            /\ connectedDuringConfigPortal => saveCalls' = saveCalls
            /\ ~connectedDuringConfigPortal
               => saveCalls' = (IF _savecallback THEN saveCalls + 1 ELSE saveCalls)
      /\ (pc = "exit" /\ exitReason = "Connected")
         => /\ attempts' = attempts /\ saveCalls' = saveCalls
            /\ connect => connect'
            /\ pc' \in {"exit", "done"} /\ exitReason' = exitReason ]_vars

\* C35 happens: startConfigPortal has returned through the status check
\* with a submission still pending, never tried, and no save callback
C35_Witness ==
  /\ pc = "done" /\ exitReason = "Connected" /\ connect
  /\ submissions > 0 /\ attempts = 0 /\ saveCalls = 0
  /\ connectedDuringConfigPortal /\ _savecallback

(* ------------- handleWifiSave and the tick, by statement --------------- *)
\* The server runs handleWifiSave in its own task while the main task runs
\* the loop of startConfigPortal; neither takes a lock, so the statements of
\* the two interleave.

\* the credential submissions of the interleaved runs
RaceSubmissions == {[s |-> "cafe", p |-> "pwC"], [s |-> "home", p |-> "pwH"]}

\* the server task enters handleWifiSave with a request
handleWifiSaveEnter ==
  /\ routes
  /\ pc \notin {"fault", "restarted"}
  /\ save.at = "idle"
  /\ submissions < MaxSubmissions
  /\ submissions' = submissions + 1
  /\ \E req \in RaceSubmissions :
       save' = [at |-> "time_now", k |-> submissions + 1, req |-> req]
  /\ UNCHANGED <<now, elapses, pc, sketch, _modeless, connect, scannow, time_now, foundOnScan, ap_on, border, _ssid, _pass, _configPortalTimeout, _connectTimeout, _configPortalStart, _shouldBreakAfterConfig, _tryConnectDuringConfigPortal, _savecallback, shouldscan, try_scan, wifiSSIDs, wifiSSIDCount, connectedDuringConfigPortal, argSsid, argPass, connRes, caller, radioCalls, wlStatus, staPending, connCause, wifiMode, storedSSID, scanState, radioScan, routes, dnsRunning, saveCalls, apCalls, attempts, exitReason, result, scanCall, page, _minimumQuality, qualityCall, _apPassword, softAP, _params, _paramsCount, overrun, staRoutes, restartedBy, autoConnectCall, waitCall, scanRequest, refresh, rendered, portalRuns, response, origin>>

\* the statement after the one at position at
StatementAfter(at) ==
  CASE at = "time_now" -> "ap_on"
    [] at = "ap_on" -> "border"
    [] at = "border" -> "_ssid"
    [] at = "_ssid" -> "_pass"
    [] at = "_pass" -> "connect"
    [] OTHER -> "idle"

\* one statement of handleWifiSave: time_now = millis(); ap_on = false;
\* border = 20000; _ssid = ...; _pass = ...; and, after the page was sent,
\* connect = true
handleWifiSaveStatement ==
  /\ save.at # "idle"
  /\ time_now' = IF save.at = "time_now" THEN now ELSE time_now
  /\ ap_on' = IF save.at = "ap_on" THEN FALSE ELSE ap_on
  /\ border' = IF save.at = "border" THEN SaveBorder ELSE border
  /\ _ssid' = IF save.at = "_ssid" THEN save.req.s ELSE _ssid
  /\ _pass' = IF save.at = "_pass" THEN save.req.p ELSE _pass
  /\ connect' = IF save.at = "connect" THEN TRUE ELSE connect
  /\ origin' = [origin EXCEPT
                  !.ssid = IF save.at = "_ssid" THEN save.k ELSE @,
                  !.pass = IF save.at = "_pass" THEN save.k ELSE @,
                  !.done = IF save.at = "connect" THEN save.k ELSE @]
  /\ save' = [save EXCEPT !.at = StatementAfter(@)]
  /\ UNCHANGED <<now, elapses, pc, sketch, submissions, _modeless, scannow, foundOnScan, _configPortalTimeout, _connectTimeout, _configPortalStart, _shouldBreakAfterConfig, _tryConnectDuringConfigPortal, _savecallback, shouldscan, try_scan, wifiSSIDs, wifiSSIDCount, connectedDuringConfigPortal, argSsid, argPass, connRes, caller, radioCalls, wlStatus, staPending, connCause, wifiMode, storedSSID, scanState, radioScan, routes, dnsRunning, saveCalls, apCalls, attempts, exitReason, result, scanCall, page, _minimumQuality, qualityCall, _apPassword, softAP, _params, _paramsCount, overrun, staRoutes, restartedBy, autoConnectCall, waitCall, scanRequest, refresh, rendered, portalRuns, response>>

\* if (connect)
TickReadFlag ==
  /\ pc = "tick_connect"
  /\ pc' = IF connect THEN "tick_clear" ELSE "loop"
  /\ UNCHANGED <<now, elapses, sketch, submissions, _modeless, connect, scannow, time_now, foundOnScan, ap_on, border, _ssid, _pass, _configPortalTimeout, _connectTimeout, _configPortalStart, _shouldBreakAfterConfig, _tryConnectDuringConfigPortal, _savecallback, shouldscan, try_scan, wifiSSIDs, wifiSSIDCount, connectedDuringConfigPortal, argSsid, argPass, connRes, caller, radioCalls, wlStatus, staPending, connCause, wifiMode, storedSSID, scanState, radioScan, routes, dnsRunning, saveCalls, apCalls, attempts, exitReason, result, scanCall, page, _minimumQuality, qualityCall, _apPassword, softAP, _params, _paramsCount, overrun, staRoutes, restartedBy, autoConnectCall, waitCall, scanRequest, refresh, rendered, portalRuns, response, save, origin>>

\* connect = false; delay(2000);
TickClearFlag ==
  /\ pc = "tick_clear"
  /\ connect' = FALSE
  /\ now' = now + ConnectDelay
  /\ pc' = "tick_doconnect"
  /\ UNCHANGED <<elapses, sketch, submissions, _modeless, scannow, time_now, foundOnScan, ap_on, border, _ssid, _pass, _configPortalTimeout, _connectTimeout, _configPortalStart, _shouldBreakAfterConfig, _tryConnectDuringConfigPortal, _savecallback, shouldscan, try_scan, wifiSSIDs, wifiSSIDCount, connectedDuringConfigPortal, argSsid, argPass, connRes, caller, radioCalls, wlStatus, staPending, connCause, wifiMode, storedSSID, scanState, radioScan, routes, dnsRunning, saveCalls, apCalls, attempts, exitReason, result, scanCall, page, _minimumQuality, qualityCall, _apPassword, softAP, _params, _paramsCount, overrun, staRoutes, restartedBy, autoConnectCall, waitCall, scanRequest, refresh, rendered, portalRuns, response, save, origin>>

\* the call of connectWifi copies the credentials of a submission when one
\* submission wrote both _ssid and _pass
Tried ==
  [origin EXCEPT !.served = IF origin.ssid = origin.pass THEN origin.ssid ELSE @]

\* TickCallConnect clearing the flag once more at the call
TickCallConnectClears ==
  /\ pc = "tick_doconnect"
  /\ connect' = FALSE
  /\ IF _tryConnectDuringConfigPortal
     THEN connectWifi(_ssid, _pass, "portal") /\ origin' = Tried
     ELSE pc' = "tick_after" /\ UNCHANGED <<staVars, callVars, attempts, origin>>
  /\ UNCHANGED <<now, elapses, sketch, submissions, _modeless, scannow, time_now, foundOnScan, ap_on, border, _ssid, _pass, _configPortalTimeout, _connectTimeout, _configPortalStart, _shouldBreakAfterConfig, _tryConnectDuringConfigPortal, _savecallback, shouldscan, try_scan, wifiSSIDs, wifiSSIDCount, connectedDuringConfigPortal, connRes, wifiMode, scanState, radioScan, routes, dnsRunning, saveCalls, apCalls, exitReason, result, scanCall, page, _minimumQuality, qualityCall, _apPassword, softAP, _params, _paramsCount, overrun, staRoutes, restartedBy, autoConnectCall, waitCall, scanRequest, refresh, rendered, portalRuns, response, save>>

\* _tryConnectDuringConfigPortal and connectWifi(_ssid, _pass): the call
\* copies _ssid and _pass as they are when it is made
TickCallConnect ==
  /\ pc = "tick_doconnect"
  /\ IF _tryConnectDuringConfigPortal
     THEN connectWifi(_ssid, _pass, "portal") /\ origin' = Tried
     ELSE pc' = "tick_after" /\ UNCHANGED <<staVars, callVars, attempts, origin>>
  /\ UNCHANGED <<now, elapses, sketch, submissions, _modeless, connect, scannow, time_now, foundOnScan, ap_on, border, _ssid, _pass, _configPortalTimeout, _connectTimeout, _configPortalStart, _shouldBreakAfterConfig, _tryConnectDuringConfigPortal, _savecallback, shouldscan, try_scan, wifiSSIDs, wifiSSIDCount, connectedDuringConfigPortal, connRes, wifiMode, scanState, radioScan, routes, dnsRunning, saveCalls, apCalls, exitReason, result, scanCall, page, _minimumQuality, qualityCall, _apPassword, softAP, _params, _paramsCount, overrun, staRoutes, restartedBy, autoConnectCall, waitCall, scanRequest, refresh, rendered, portalRuns, response, save>>

\* the steps of the main task in the blocking portal
MainTask ==
  \/ StartConfigPortal
  \/ LoopHead
  \/ TickAp
  \/ TickScan
  \/ TickStatus
  \/ TickReadFlag
  \/ TickClearFlag
  \/ TickCallConnect
  \/ WaitDriver
  \/ TickAfter
  \/ PortalExit

NextRace ==
  \/ MainTask
  \/ handleWifiSaveEnter
  \/ handleWifiSaveStatement
  \/ setBreakAfterConfig
  \/ RadioResolve

\* both tasks keep running: the main task takes its next step and a handler
\* that was entered executes its next statement
SpecRace ==
  InitBlocking /\ [][NextRace]_vars
  /\ WF_vars(MainTask) /\ WF_vars(handleWifiSaveStatement)

\* C37: every connection attempt started by a tick copies an SSID and a
\* passphrase written by one and the same submission, whatever statements of
\* a second submission's handler run between the tick's read of the flag and
\* its call of connectWifi.
C37_AttemptFromOneSubmission ==
  (pc = "cw_wait" /\ caller = "portal")
     => [s |-> argSsid, p |-> argPass] \in RaceSubmissions

\* C36: connect is set by the handler only as its last statement, when _ssid
\* and _pass hold the fields of its submission, and is cleared only by the
\* tick; and every submission whose handler has set connect is followed by
\* the start of a connection attempt with the credentials of that or a later
\* submission, unless startConfigPortal returns first.
C36_NoSaveRequestLost ==
  /\ [][ /\ (connect' /\ ~connect)
            => /\ save.at = "connect" /\ save'.at = "idle"
               /\ _ssid = save.req.s /\ _pass = save.req.p
               /\ origin.ssid = save.k /\ origin.pass = save.k
         /\ (connect /\ ~connect') => (pc = "tick_clear" /\ pc' = "tick_doconnect")
       ]_vars
  /\ \A k \in 1..MaxSubmissions :
        (origin.done >= k /\ _tryConnectDuringConfigPortal)
           ~> (origin.served >= k \/ pc = "done")

\* C36 happens: the tick read the flag of the first submission, the handler
\* of the second one ran to its end before the tick cleared the flag, and the
\* one attempt that followed used the credentials of the second submission
C36_Witness ==
  /\ origin.done = 2 /\ origin.served = 2 /\ attempts = 1 /\ ~connect
  /\ pc = "cw_wait" /\ argSsid = _ssid /\ argPass = _pass

(* ---------------- the portal after a failed attempt -------------------- *)
\* time passes while the main task yields between two ticks; the clock is
\* followed up to the moment the AP check is due, which is all a tick reads
\* of it while the portal has no timeout and the scan interval is not reached
TimePasses ==
  /\ pc = "loop"
  /\ now - time_now <= border
  /\ \E d \in ElapseSteps : now' = now + d
  /\ UNCHANGED <<elapses, pc, sketch, submissions, _modeless, connect, scannow, time_now, foundOnScan, ap_on, border, _ssid, _pass, _configPortalTimeout, _connectTimeout, _configPortalStart, _shouldBreakAfterConfig, _tryConnectDuringConfigPortal, _savecallback, shouldscan, try_scan, wifiSSIDs, wifiSSIDCount, connectedDuringConfigPortal, argSsid, argPass, connRes, caller, radioCalls, wlStatus, staPending, connCause, wifiMode, storedSSID, scanState, radioScan, routes, dnsRunning, saveCalls, apCalls, attempts, exitReason, result, scanCall, page, _minimumQuality, qualityCall, _apPassword, softAP, _params, _paramsCount, overrun, staRoutes, restartedBy, autoConnectCall, waitCall, scanRequest, refresh, rendered, portalRuns, response, save, origin>>

\* the steps of the main task in the blocking portal, tick by tick
PortalTask ==
  \/ StartConfigPortal
  \/ LoopHead
  \/ TickAp
  \/ TickScan
  \/ TickStatus
  \/ TickConnect
  \/ TickDoConnect
  \/ WaitDriver
  \/ TickAfter
  \/ PortalExit

NextReach ==
  \/ PortalTask
  \/ setTryConnectDuringConfigPortal
  \/ handleWifiSave
  \/ RadioResolve
  \/ TimePasses

\* the blocking portal without a timeout and without break-after-config:
\* ticks keep running, and time keeps passing between them
SpecReach ==
  InitBlocking /\ [][NextReach]_vars
  /\ WF_vars(PortalTask) /\ SF_vars(TimePasses)

\* C38: in the blocking portal, with break-after-config off and no portal
\* timeout, once a tick has taken up a save request and has gone on to the
\* next tick, its connection attempt not having ended connected, the radio
\* is eventually in AP-only mode with ap_on set, unless the radio reports
\* connected first.
C38_ApComesBack ==
  (pc = "loop" /\ submissions > 0 /\ ~connect)
     ~> \/ ap_on /\ wifiMode = "WIFI_AP"
        \/ wlStatus = "WL_CONNECTED"

\* C38 happens: the attempt of a submission has failed, time_now was set at
\* the failure, and the AP check of a later tick has switched the radio to
\* AP-only mode SaveBorder later
C38_Witness ==
  /\ pc = "tick_scan" /\ ap_on /\ wifiMode = "WIFI_AP"
  /\ submissions > 0 /\ attempts > 0 /\ ~connect
  /\ border = SaveBorder /\ time_now >= ConnectDelay /\ now - time_now > border
  /\ wlStatus # "WL_CONNECTED"

\* C40: with a connect timeout T > 0 and a wrapping millisecond counter,
\* waitForConnectResult leaves its loop on a status that is neither connected
\* nor connect-failed only when T milliseconds have passed since it was
\* entered, and does not stay in the loop once T plus one poll interval have
\* passed, whatever millis() was at the start.
C40_TimeoutBetweenTAndOnePollMore ==
  [][ /\ (WaitIteration /\ pc' = "wf_return" /\ ~PollEnds(wlStatus))
         => waitCall.waited >= _connectTimeout
      /\ (WaitIteration /\ pc' = "wf_poll")
         => waitCall.waited < _connectTimeout + PollDelay ]_vars

====
